---------------------------- MODULE Spec2Model ----------------------------
(***************************************************************************)
(* Model of ai_necklace.py: the foreground turn (process_voice and the     *)
(* functions it calls), the alarm store and its tools, the alarm monitor   *)
(* thread (check_alarms_and_notify) and the push-message listener callback *)
(* (on_voice_message_received).                                            *)
(*                                                                         *)
(* Python strings that the code parses or compares ("HH:MM" times) are     *)
(* sequences of one-character strings, so that split(':'), int() and       *)
(* strftime("%H:%M") are computed as the code computes them.                *)
(***************************************************************************)
EXTENDS Integers, Sequences, FiniteSets, TLC

\* ------------------------------------------------------------------ bounds

\* Turns the foreground may start in the conversation specification.
MaxTurns == 6
\* Turns the foreground may start in the alarm-store specification.
MaxAlarmTurns == 4
\* Turns the foreground may start in the device and audio specifications.
MaxDeviceTurns == 2
\* Clock minutes that may pass in the device and audio specifications.
MaxTicks == 1
\* Poll cycles of the alarm monitor in the device and audio specifications.
MaxPolls == 3
\* Inbound voice notes in the audio specification.
MaxMessages == 1
\* Chunks a capture may hold in the model (stands for max_chunks).
MaxChunks == 6
\* Process restarts of the alarm-lifetimes specification.
MaxRestarts == 1
\* Turns the foreground may start in the mail specification.
MaxMailTurns == 3
\* Turns the foreground may start in the translation specifications.
MaxTranslateTurns == 5
\* Turns the foreground may start in the fair specification.
MaxLiveTurns == 1
\* Chunks the playbacks of one turn may write in the fair specification.
MaxPlayChunks == 2

\* ------------------------------------------------------- program constants

MAX_RETRIES == 3
RETRY_DELAY == 2
HistoryCap == 10
MinFrames == 5
\* The wall clock when the model starts, in minutes since midnight (07:00).
StartMinute == 7 * 60

\* ------------------------------------------------------------- time strings

Digit == <<"0", "1", "2", "3", "4", "5", "6", "7", "8", "9">>

NoneStr == <<"<None>">>

IsDigitChar(c) == \E i \in 1..10 : Digit[i] = c

DigitValue(c) == (CHOOSE i \in 1..10 : Digit[i] = c) - 1

\* str.split(':'): the fields between the colons (always at least one field).
RECURSIVE SplitColon(_)
SplitColon(s) ==
    IF \A i \in 1..Len(s) : s[i] # ":"
    THEN <<s>>
    ELSE LET k == CHOOSE i \in 1..Len(s) :
                     s[i] = ":" /\ \A j \in 1..(i - 1) : s[j] # ":"
         IN <<SubSeq(s, 1, k - 1)>> \o SplitColon(SubSeq(s, k + 1, Len(s)))

\* str.strip() as int() applies it: leading and trailing blanks removed.
RECURSIVE StripBlanks(_)
StripBlanks(s) ==
    IF s = <<>> THEN s
    ELSE IF Head(s) = " " THEN StripBlanks(Tail(s))
    ELSE IF s[Len(s)] = " " THEN StripBlanks(SubSeq(s, 1, Len(s) - 1))
    ELSE s

RECURSIVE DecimalValue(_)
DecimalValue(s) ==
    IF s = <<>> THEN 0
    ELSE 10 * DecimalValue(SubSeq(s, 1, Len(s) - 1)) + DigitValue(s[Len(s)])

\* int(field): [ok, value]; ok is FALSE where int() raises ValueError.
ParseInt(field) ==
    LET t == StripBlanks(field)
        signed == t # <<>> /\ Head(t) \in {"+", "-"}
        body == IF signed THEN Tail(t) ELSE t
        wellformed == body # <<>> /\ \A i \in 1..Len(body) : IsDigitChar(body[i])
    IN IF ~wellformed THEN [ok |-> FALSE, value |-> 0]
       ELSE [ok |-> TRUE,
             value |-> IF signed /\ Head(t) = "-"
                       THEN 0 - DecimalValue(body) ELSE DecimalValue(body)]

\* datetime.strftime("%H:%M") of a minute of the day.
Strftime(m) ==
    LET h == (m \div 60) % 24
        mi == m % 60
    IN <<Digit[(h \div 10) + 1], Digit[(h % 10) + 1], ":",
         Digit[(mi \div 10) + 1], Digit[(mi % 10) + 1]>>


\* -------------------------------------------------------------- alarm store

\* An alarm record; label and message keep their defaults, created_at is
\* not read by any code and is left out.
Alarm(id, time_str) ==
    [id |-> id, time |-> time_str, label |-> "alarm", enabled |-> TRUE]

\* A slip: the range test lets the hour 24 through.
AlarmTimeCheckHour24(time_str) ==
    IF time_str = NoneStr THEN "format"
    ELSE LET fields == SplitColon(time_str)
         IN IF Len(fields) # 2 THEN "format"
            ELSE LET hour == ParseInt(fields[1])
                     minute == ParseInt(fields[2])
                 IN IF ~hour.ok \/ ~minute.ok THEN "format"
                    ELSE IF hour.value >= 0 /\ hour.value <= 24
                            /\ minute.value >= 0 /\ minute.value <= 59
                         THEN "ok"
                         ELSE "range"

\* alarm_set's validation: "ok", "range" (the first error string) or
\* "format" (the except branch: None has no split, the unpacking needs
\* exactly two fields, int() rejects a field).
AlarmTimeCheck(time_str) ==
    IF time_str = NoneStr THEN "format"
    ELSE LET fields == SplitColon(time_str)
         IN IF Len(fields) # 2 THEN "format"
            ELSE LET hour == ParseInt(fields[1])
                     minute == ParseInt(fields[2])
                 IN IF ~hour.ok \/ ~minute.ok THEN "format"
                    ELSE IF hour.value >= 0 /\ hour.value <= 23
                            /\ minute.value >= 0 /\ minute.value <= 59
                         THEN "ok"
                         ELSE "range"

\* A slip: the id is taken from the list's length, not from alarm_next_id.
AlarmAppendLengthId(list, next_id, time_str) ==
    Append(list, Alarm(Len(list) + 1, time_str))

\* alarms.append(alarm) with the id taken from alarm_next_id.
AlarmAppend(list, next_id, time_str) == Append(list, Alarm(next_id, time_str))

\* save_alarms: the file after the call; an I/O failure is caught and
\* leaves the file as it was.
SaveAlarms(file, list, next_id, io_ok) ==
    IF io_ok THEN [exists |-> TRUE, alarms |-> list, next_id |-> next_id]
    ELSE file

\* alarm_list's text: the 'no alarms' sentence, or one line per alarm.
AlarmListText(list) ==
    IF list = <<>>
    THEN [kind |-> "no_alarms", lines |-> <<>>]
    ELSE [kind |-> "alarm_listing",
          lines |-> [i \in 1..Len(list) |->
                        [id |-> list[i].id, time |-> list[i].time,
                         label |-> list[i].label,
                         status |-> IF list[i].enabled THEN "enabled"
                                    ELSE "disabled"]]]

\* The index alarm_delete pops: the first alarm with the id, 0 if none.
AlarmIndexOf(list, alarm_id) ==
    IF \E i \in 1..Len(list) : list[i].id = alarm_id
    THEN CHOOSE i \in 1..Len(list) :
             list[i].id = alarm_id /\ \A j \in 1..(i - 1) : list[j].id # alarm_id
    ELSE 0

\* alarms.pop(i)
AlarmPop(list, i) == SubSeq(list, 1, i - 1) \o SubSeq(list, i + 1, Len(list))


\* ------------------------------------------------------------------- state

VARIABLES
    running,               \* the shutdown flag (False after a signal)
    use_button,            \* CONFIG["use_button"] and button
    firebase_messenger,    \* TRUE when the messenger was initialised
    translation_mode,      \* CONFIG["translation_mode"]
    pc,                    \* where the main thread is
    turn,                  \* turns started so far
    frames,                \* len(frames) of the capture in progress
    in_vrs,                \* inside record_and_send_voice_message
    text,                  \* the transcript of the turn
    attempt,               \* retry_on_error's attempt around get_ai_response
    conversation_history,
    tool_call,             \* the function call being dispatched
    tool_result,           \* what execute_tool returned last
    response,              \* the text handed to text_to_speech
    alarms,
    alarm_next_id,
    alarm_file,            \* the persisted store at alarm_file_path
    record_lock,           \* the holder of record_lock: "none", "fg", "alarm"
    is_recording,
    clock,                 \* minutes passed since the model's start
    al_pc,                 \* where the alarm monitor thread is
    al_now,                \* the minute its poll cycle read from the clock
    al_idx,                \* the index of its for loop over alarms
    al_alarm,              \* the alarm its loop body is handling
    last_triggered,        \* the local dict, as a set of <<id, "HH:MM">>
    polls,                 \* poll cycles started so far
    ls_pc,                 \* where the listener callback is
    messages,              \* voice notes received so far
    ls_steps,              \* what the callback has done for the current note
    exec_count,            \* execute_tool calls of the current turn
    hist_before,           \* len(conversation_history) when the turn began
    announced,             \* alarm announcements played, in order
    skipped,               \* firings dropped because is_recording was set
    unvoiced,              \* firings for which text_to_speech gave no audio
    scan,                  \* the current scan: ids listed at its start, ids examined
    accepted,              \* alarm_set calls that reported success
    live,                  \* <<k, time>>: the k-th accepted alarm, not deleted
    ids_seen,              \* the ids alarms have had since the process started
    restarts,              \* process starts after the first one
    last_email_list,       \* the entries of the last mail listing
    languages,             \* CONFIG["source_language"], CONFIG["target_language"]
    out_lang,              \* the language handed to text_to_speech
    turn_calls             \* the backend calls and retry waits of the turn

vars == <<running, use_button, firebase_messenger, translation_mode, pc, turn,
          frames, in_vrs, text, attempt, conversation_history, tool_call,
          tool_result, response, alarms, alarm_next_id, alarm_file,
          record_lock, is_recording, clock, al_pc, al_now, al_idx,
          al_alarm, last_triggered, polls, ls_pc, messages, ls_steps, exec_count,
          hist_before, announced, skipped, unvoiced, scan, accepted, live, ids_seen, restarts,
          last_email_list, languages, out_lang, turn_calls>>

\* The variables of the alarm monitor thread.
alarm_vars == <<al_pc, al_now, al_idx, al_alarm, last_triggered, polls,
               announced, skipped, unvoiced, scan>>
\* The variables of the listener.
listener_vars == <<ls_pc, messages, ls_steps>>
\* The alarm store.
store_vars == <<alarms, alarm_next_id, alarm_file, accepted, live, ids_seen>>
\* What only a restart, the mail tools, the translation switch and the
\* backend calls of a turn change.
extra_vars == <<restarts, last_email_list, languages, out_lang, turn_calls>>
\* The variables only the background threads and the environment change.
background_vars == <<alarm_vars, listener_vars, clock>>

\* ------------------------------------------------------------ the mail tools

\* params['message_id'] as the function call carries it: an int, a str or
\* absent (None).
IntRef(n) == [type |-> "int", int |-> n, chars |-> <<>>]
StrRef(s) == [type |-> "str", int |-> 0, chars |-> s]
NoRef == [type |-> "none", int |-> 0, chars |-> <<>>]

\* str.isdigit() on the digits and signs of the model: every character a
\* digit and at least one character.
IsDigitStr(s) == s # <<>> /\ \A i \in 1..Len(s) : IsDigitChar(s[i])

\* isinstance(msg_id, int) or (isinstance(msg_id, str) and msg_id.isdigit())
IsOrdinal(ref) ==
    ref.type = "int" \/ (ref.type = "str" /\ IsDigitStr(ref.chars))

\* int(msg_id) of such a reference.
OrdinalValue(ref) ==
    IF ref.type = "int" THEN ref.int ELSE DecimalValue(ref.chars)

\* The message id a reference passed through unresolved stands for.
RawMessageId(ref) == IF ref.type = "str" THEN ref.chars ELSE NoneStr

\* A slip: the ordinal is used as the index without the "- 1".
ResolveMessageIdZeroBased(ref, list) ==
    IF IsOrdinal(ref)
    THEN LET idx == OrdinalValue(ref)
         IN IF 0 <= idx /\ idx < Len(list)
            THEN [found |-> TRUE, id |-> list[idx + 1].id,
                  to_email |-> list[idx + 1].from_email]
            ELSE [found |-> FALSE, id |-> NoneStr, to_email |-> NoneStr]
    ELSE [found |-> TRUE, id |-> RawMessageId(ref), to_email |-> NoneStr]

\* execute_tool's resolution of message_id against last_email_list: an
\* ordinal indexes the list from 1 (idx = int(msg_id) - 1, a Python index
\* from 0) or is not found; anything else is passed on as it is.
ResolveMessageId(ref, list) ==
    IF IsOrdinal(ref)
    THEN LET idx == OrdinalValue(ref) - 1
         IN IF 0 <= idx /\ idx < Len(list)
            THEN [found |-> TRUE, id |-> list[idx + 1].id,
                  to_email |-> list[idx + 1].from_email]
            ELSE [found |-> FALSE, id |-> NoneStr, to_email |-> NoneStr]
    ELSE [found |-> TRUE, id |-> RawMessageId(ref), to_email |-> NoneStr]

\* An entry of last_email_list; from, subject and date are only read back
\* into texts and are left out.
EmailInfo(id) == [id |-> id, from_email |-> <<"f", "r", "o", "m", "_">> \o id]

\* gmail_list's effect on last_email_list.  listing is what messages.list
\* returned; fetched is how many messages.get calls returned before one
\* raised (all of them when none did).  An empty listing returns before the
\* list is touched; otherwise it is emptied and filled entry by entry.
GmailListEffect(old, listing, fetched) ==
    IF listing = <<>> THEN old
    ELSE [i \in 1..fetched |-> EmailInfo(listing[i])]

\* The lines of gmail_list's text, one per listed message.
GmailListText(listing) ==
    [kind |-> "mail_listing",
     lines |-> [i \in 1..Len(listing) |-> [ordinal |-> i, id |-> listing[i]]]]

\* CONFIG's source_language and target_language as the module sets them.
DefaultLanguages == [source |-> "ja", target |-> "en"]

NoCall == [tool |-> "none", time |-> NoneStr, alarm_id |-> 0, id_numeric |-> TRUE,
           message_id |-> NoRef, langs |-> DefaultLanguages]
NoResult == [kind |-> "none", lines |-> <<>>]
ToolText(kind) == [kind |-> kind, lines |-> <<>>]

NoText == <<>>
\* No backend call made yet in the turn: the generate_content calls of
\* transcribe_audio and of translate_text, the calls of get_ai_response,
\* time.sleep's arguments in retry_on_error, the mail calls with their
\* arguments, the step ("stt", "translate") that failed on an overload,
\* what process_voice's capture returned ("audio", "short" for None,
\* "error" for an exception), the user entries appended to the history,
\* the step ("stt", "reason", "summary", "translate") whose backend call
\* failed without the overload signature, what transcribe_audio gave the
\* push-voice sequence and the send_message calls of that sequence.
NoCalls == [stt |-> 0, translate |-> 0, reason |-> 0, waits |-> <<>>,
            mail |-> <<>>, overloaded |-> "none", capture |-> "none",
            appended |-> 0, failed |-> "none", vrs_text |-> "none",
            forwarded |-> 0, written |-> 0]
\* The entries of conversation_history; the content of an assistant entry
\* (the model's reply) is not read by any code and is not modelled.
UserEntry(content) == [role |-> "user", content |-> content]
AssistantEntry == [role |-> "assistant", content |-> <<"reply">>]

\* The state right after module load and main()'s initialisation with no
\* persisted alarm file.
InitCommon ==
    /\ running = TRUE
    /\ translation_mode = FALSE
    /\ pc = "idle"
    /\ turn = 0
    /\ frames = 0
    /\ in_vrs = FALSE
    /\ text = NoText
    /\ attempt = 0
    /\ conversation_history = <<>>
    /\ tool_call = NoCall
    /\ tool_result = NoResult
    /\ response = "none"
    /\ record_lock = "none"
    /\ is_recording = FALSE
    /\ clock = 0
    /\ al_pc = "sleep"
    /\ al_now = 0
    /\ al_idx = 1
    /\ al_alarm = Alarm(0, NoneStr)
    /\ last_triggered = {}
    /\ polls = 0
    /\ ls_pc = "idle"
    /\ messages = 0
    /\ ls_steps = <<>>
    /\ exec_count = 0
    /\ hist_before = 0
    /\ announced = <<>>
    /\ skipped = {}
    /\ unvoiced = {}
    /\ scan = [ids |-> {}, seen |-> {}]
    /\ restarts = 0
    /\ last_email_list = <<>>
    /\ languages = DefaultLanguages
    /\ out_lang = "none"
    /\ turn_calls = NoCalls

EmptyStore ==
    /\ alarms = <<>>
    /\ alarm_next_id = 1
    /\ alarm_file = [exists |-> FALSE, alarms |-> <<>>, next_id |-> 1]
    /\ accepted = 0
    /\ live = {}
    /\ ids_seen = {}

\* ------------------------------------------------------ conversation history

\* A slip: the cap keeps the oldest entries.
CapHistoryKeepOldest(h) ==
    IF Len(h) > HistoryCap THEN SubSeq(h, 1, HistoryCap) ELSE h

\* conversation_history = conversation_history[-10:] when it is longer.
CapHistory(h) ==
    IF Len(h) > HistoryCap THEN SubSeq(h, Len(h) - HistoryCap + 1, Len(h)) ELSE h

\* The user entry is appended, then the cap is applied.
AppendUser(h, content) == CapHistory(Append(h, UserEntry(content)))

\* A slip: the user entry is appended before the translation branch.
HistoryOnEnterAppendFirst(h, content, translating) == AppendUser(h, content)

\* get_ai_response's entry: in translation mode it returns before the
\* append; otherwise the user entry is appended and the history capped.
HistoryOnEnter(h, content, translating) ==
    IF translating THEN h ELSE AppendUser(h, content)

\* The assistant entry of a plain-text response is appended.
AppendAssistant(h) == Append(h, AssistantEntry)

\* After the summary: the last entry is popped if it is a user entry.
RetractUser(h) ==
    IF h # <<>> /\ h[Len(h)].role = "user" THEN SubSeq(h, 1, Len(h) - 1) ELSE h

\* ------------------------------------------------------- the foreground turn

\* A slip: the loop does not look at the flag.
MainLoopRunsAlways == TRUE

\* "while running": the test of main()'s loops.
MainLoopRuns == running

\* main()'s loop starts process_voice: the button is pressed (button mode) or
\* the loop comes round (no-button mode).  limit bounds the turns.
StartTurn(limit) ==
    /\ pc = "idle"
    /\ MainLoopRuns
    /\ turn < limit
    /\ turn' = turn + 1
    /\ UNCHANGED <<exec_count, hist_before, frames>>
    /\ pc' = IF use_button THEN "rec_begin" ELSE "rec_auto"
    /\ UNCHANGED <<running, use_button, firebase_messenger, translation_mode,
                   in_vrs, text, attempt, conversation_history, tool_call,
                   tool_result, response, store_vars, record_lock,
                   is_recording, background_vars>>
    /\ UNCHANGED extra_vars

\* main()'s while loop ends once running is False.
MainExit ==
    /\ pc = "idle"
    /\ ~MainLoopRuns
    /\ pc' = "exit"
    /\ UNCHANGED <<running, use_button, firebase_messenger, translation_mode,
                   turn, frames, in_vrs, text, attempt, conversation_history,
                   tool_call, tool_result, response, store_vars, record_lock,
                   is_recording, background_vars, exec_count, hist_before>>
    /\ UNCHANGED extra_vars

\* process_voice has returned (or raised into main()'s except): the loop
\* sleeps and polls again.  The turn's locals are gone.
MainLoopNext ==
    /\ pc = "returned"
    /\ pc' = "idle"
    /\ tool_call' = NoCall
    /\ tool_result' = NoResult
    /\ response' = "none"
    /\ text' = NoText
    /\ attempt' = 0
    /\ frames' = 0
    /\ in_vrs' = FALSE
    /\ exec_count' = 0
    /\ hist_before' = Len(conversation_history)
    /\ UNCHANGED <<running, use_button, firebase_messenger, translation_mode,
                   turn, conversation_history, store_vars, record_lock,
                   is_recording, background_vars>>
    /\ out_lang' = "none"
    /\ turn_calls' = NoCalls
    /\ UNCHANGED <<restarts, last_email_list, languages>>

\* signal_handler: running = False.
Shutdown ==
    /\ running
    /\ pc # "exit"
    /\ running' = FALSE
    /\ UNCHANGED <<use_button, firebase_messenger, translation_mode, pc, turn,
                   frames, in_vrs, text, attempt, conversation_history, tool_call,
                   tool_result, response, store_vars, record_lock,
                   is_recording, background_vars, exec_count, hist_before>>
    /\ UNCHANGED extra_vars

\* A slip: an exception of a turn reaches main()'s outer handler, which
\* ends the process.
RaisedInTurnFatal == "exit"

\* Where an exception raised inside a turn leaves the main thread:
\* process_voice's except (or, for the capture, the except inside main()'s
\* loop) prints it and the loop goes on.
RaisedInTurn == "returned"

\* What only the capture steps leave alone.
capture_frame == <<running, use_button, firebase_messenger, translation_mode,
                   turn, text, attempt, conversation_history, tool_call, tool_result,
                   store_vars, background_vars, exec_count, hist_before>>

\* A slip: process_voice goes on to transcribe_audio without the None test.
AfterCaptureNoNoneTest(got_audio) ==
    /\ frames' = 0
    /\ turn_calls' = IF in_vrs THEN turn_calls
                     ELSE [turn_calls EXCEPT
                              !.capture = IF got_audio THEN "audio" ELSE "short"]
    /\ UNCHANGED <<restarts, last_email_list, languages, out_lang>>
    /\ pc' = IF in_vrs THEN "vrs_transcribe" ELSE "transcribe"
    /\ response' = response
    /\ in_vrs' = in_vrs

\* Where the caller goes with the capture's result (a buffer or None):
\* process_voice returns on None; record_and_send_voice_message reports it.
AfterCapture(got_audio) ==
    /\ frames' = 0
    /\ turn_calls' = IF in_vrs THEN turn_calls
                     ELSE [turn_calls EXCEPT
                              !.capture = IF got_audio THEN "audio" ELSE "short"]
    /\ UNCHANGED <<restarts, last_email_list, languages, out_lang>>
    /\ IF in_vrs
       THEN /\ pc' = IF got_audio THEN "vrs_transcribe" ELSE "vrs_report_tts"
            /\ response' = IF got_audio THEN response ELSE "record_failed"
            /\ in_vrs' = in_vrs
       ELSE /\ pc' = IF got_audio THEN "transcribe" ELSE "returned"
            /\ response' = response
            /\ in_vrs' = in_vrs

\* record_audio_while_pressed: audio.open raises before anything is
\* recorded.
CaptureOpenError ==
    /\ pc = "rec_begin"
    /\ pc' = RaisedInTurn
    /\ in_vrs' = FALSE
    /\ turn_calls' = IF in_vrs THEN turn_calls
                     ELSE [turn_calls EXCEPT !.capture = "error"]
    /\ UNCHANGED <<capture_frame, frames, response, record_lock, is_recording,
                   restarts, last_email_list, languages, out_lang>>

\* record_audio_while_pressed, first "with record_lock": the acquisition.
RecLockBegin ==
    /\ pc = "rec_begin"
    /\ record_lock = "none"
    /\ record_lock' = "fg"
    /\ pc' = "rec_locked_begin"
    /\ UNCHANGED <<capture_frame, frames, in_vrs, response, is_recording>>
    /\ UNCHANGED extra_vars

\* is_recording = True, and the lock is released.
RecSetFlag ==
    /\ pc = "rec_locked_begin"
    /\ is_recording' = TRUE
    /\ record_lock' = "none"
    /\ pc' = "capturing"
    /\ UNCHANGED <<capture_frame, frames, in_vrs, response>>
    /\ UNCHANGED extra_vars

\* One pass of the capture loop that reads a chunk.
CaptureChunk ==
    /\ pc = "capturing"
    /\ running
    /\ frames < MaxChunks
    /\ frames' = frames + 1
    /\ UNCHANGED <<capture_frame, pc, in_vrs, response, record_lock, is_recording>>
    /\ UNCHANGED extra_vars

\* A slip: a read error leaves record_audio_while_pressed as an exception.
CaptureReadErrorRaised == RaisedInTurn

\* Where a read error inside the capture loop leaves the main thread: the
\* loop's own except prints it and breaks.
CaptureReadError == "rec_end"

\* The capture loop breaks: shutdown, the 60 s timeout, the button released,
\* max_chunks reached or a read error.
CaptureBreak ==
    /\ pc = "capturing"
    /\ \E why \in {"shutdown", "timeout", "released", "max_chunks",
                    "read_error"} :
          /\ why = "shutdown" => ~running
          /\ pc' = IF why = "read_error" THEN CaptureReadError ELSE "rec_end"
    /\ UNCHANGED <<capture_frame, frames, in_vrs, response, record_lock, is_recording>>
    /\ UNCHANGED extra_vars

\* Second "with record_lock": the acquisition.
RecLockEnd ==
    /\ pc = "rec_end"
    /\ record_lock = "none"
    /\ record_lock' = "fg"
    /\ pc' = "rec_locked_end"
    /\ UNCHANGED <<capture_frame, frames, in_vrs, response, is_recording>>
    /\ UNCHANGED extra_vars

\* is_recording = False, the lock is released, and the function returns
\* None when fewer than 5 chunks were read.
RecClearFlag ==
    /\ pc = "rec_locked_end"
    /\ is_recording' = FALSE
    /\ record_lock' = "none"
    /\ AfterCapture(frames >= MinFrames)
    /\ UNCHANGED capture_frame


\* record_audio_auto: returns a buffer when sound was detected, None when
\* not; a read error is not caught there and ends the turn.
RecordAuto ==
    /\ pc = "rec_auto"
    /\ \E outcome \in {"sound", "silence", "error"} :
          IF outcome = "error"
          THEN /\ pc' = RaisedInTurn
               /\ frames' = 0
               /\ in_vrs' = FALSE
               /\ response' = response
               /\ turn_calls' = IF in_vrs THEN turn_calls
                                ELSE [turn_calls EXCEPT !.capture = "error"]
               /\ UNCHANGED <<restarts, last_email_list, languages, out_lang>>
          ELSE AfterCapture(outcome = "sound")
    /\ UNCHANGED <<capture_frame, record_lock, is_recording>>


\* transcribe_audio: one generate_content call, which gives one of texts,
\* or ""/None (every exception, an overload too, is caught inside the
\* function and gives None, so retry_on_error's wrapper sees none), on
\* which process_voice returns.
Transcribe(texts) ==
    /\ pc = "transcribe"
    /\ \E t \in texts \cup {NoText}, fault \in {"none", "error", "overloaded"} :
          /\ fault # "none" => t = NoText
          /\ text' = t
          /\ pc' = IF t # NoText THEN "reason" ELSE "returned"
          /\ turn_calls' = [turn_calls EXCEPT
                               !.stt = @ + 1,
                               !.overloaded =
                                   IF fault = "overloaded" THEN "stt" ELSE @,
                               !.failed = IF fault = "error" THEN "stt" ELSE @]
    /\ attempt' = 0
    /\ UNCHANGED <<running, use_button, firebase_messenger, translation_mode,
                   turn, frames, in_vrs, conversation_history, tool_call,
                   tool_result, response, store_vars, record_lock,
                   is_recording, background_vars, exec_count, hist_before>>
    /\ UNCHANGED <<restarts, last_email_list, languages, out_lang>>

\* ------------------------------------------------------------- translation

\* A text is the sequence of its characters' code points.
\* '぀' <= c <= 'ゟ' or '゠' <= c <= 'ヿ' or
\* '一' <= c <= '鿿': hiragana, katakana, CJK ideographs.
IsJapaneseChar(c) ==
    \/ 12352 <= c /\ c <= 12447
    \/ 12448 <= c /\ c <= 12543
    \/ 19968 <= c /\ c <= 40959

\* sum(1 for c in text if ...)
RECURSIVE JapaneseChars(_)
JapaneseChars(t) ==
    IF t = <<>> THEN 0
    ELSE (IF IsJapaneseChar(Head(t)) THEN 1 ELSE 0) + JapaneseChars(Tail(t))

\* A slip: a tenth of the characters is enough.
DetectLanguageAtLeastTenth(t) ==
    IF 10 * JapaneseChars(t) >= Len(t) THEN "ja" ELSE "en"

\* detect_language: japanese_chars > len(text) * 0.1 (the product is exact
\* or above the tenth for every length, so the test is 10 * count > len).
DetectLanguage(t) ==
    IF 10 * JapaneseChars(t) > Len(t) THEN "ja" ELSE "en"

\* translate_text: the output language is the target when the detected
\* language is the source and the source otherwise; the tuple is the
\* translation with that language, or, when generate_content raises (an
\* overload included), the error text with "ja".
TranslateText(t, langs, outcome) ==
    LET detected == DetectLanguage(t)
        output_lang == IF detected = langs.source THEN langs.target
                       ELSE langs.source
    IN IF outcome = "ok"
       THEN [response |-> "translation", output_lang |-> output_lang]
       ELSE [response |-> "translation_error", output_lang |-> "ja"]

\* --------------------------------------------- get_ai_response and its retry

\* process_voice, on a response that is no tuple: the string
\* "VOICE_RECORD_SEND" starts record_and_send_voice_message, any other is
\* synthesised.  The response is the model's text, the summary's text or
\* the tool result get_ai_response passed through.
AfterResponse(reply) ==
    IF reply = "VOICE_RECORD_SEND" THEN "vrs_begin" ELSE "tts"

\* What the reasoning steps leave alone.
reason_frame == <<running, use_button, firebase_messenger, turn, frames,
                  in_vrs, text, record_lock, is_recording, background_vars,
                  hist_before>>

\* get_ai_response is entered (by retry_on_error's wrapper, attempt by
\* attempt).  In translation mode it returns translate_text's tuple after
\* one generate_content call (translate_text catches every exception, so
\* neither wrapper sees one); otherwise the user entry is appended and
\* capped.
GetAiResponseEnter ==
    /\ pc = "reason"
    /\ conversation_history' =
           HistoryOnEnter(conversation_history, text, translation_mode)
    /\ IF translation_mode
       THEN /\ \E outcome \in {"ok", "error", "overloaded"} :
                  LET t == TranslateText(text, languages, outcome)
                  IN /\ response' = t.response
                     /\ out_lang' = t.output_lang
                     /\ turn_calls' = [turn_calls EXCEPT
                                          !.reason = @ + 1,
                                          !.translate = @ + 1,
                                          !.overloaded =
                                              IF outcome = "overloaded"
                                              THEN "translate" ELSE @,
                                          !.failed =
                                              IF outcome = "error"
                                              THEN "translate" ELSE @]
            /\ pc' = "tts"
            /\ attempt' = 0
       ELSE /\ pc' = "infer"
            /\ turn_calls' = [turn_calls EXCEPT !.reason = @ + 1,
                                                !.appended = @ + 1]
            /\ UNCHANGED <<response, attempt, out_lang>>
    /\ UNCHANGED <<reason_frame, translation_mode, tool_call, tool_result,
                   store_vars, exec_count>>
    /\ UNCHANGED <<restarts, last_email_list, languages>>

\* A slip: the same wait before every retry.
RetryWaitConstant(attempt_index) == RETRY_DELAY

\* time.sleep(RETRY_DELAY * (attempt + 1)) before the next attempt.
RetryWait(attempt_index) == RETRY_DELAY * (attempt_index + 1)

\* An exception with the overload signature leaves get_ai_response: the
\* wrapper sleeps and calls it again while attempts are left, then raises
\* the last error, which process_voice catches.
RetryOrRaise ==
    /\ IF attempt < MAX_RETRIES - 1
       THEN /\ pc' = "reason"
            /\ attempt' = attempt + 1
            /\ turn_calls' = [turn_calls EXCEPT
                                 !.waits = Append(@, RetryWait(attempt))]
       ELSE /\ pc' = RaisedInTurn
            /\ attempt' = 0
            /\ turn_calls' = turn_calls
    /\ UNCHANGED <<restarts, last_email_list, languages, out_lang>>

\* generate_content returns plain text.
InferPlainText ==
    /\ pc = "infer"
    /\ conversation_history' = AppendAssistant(conversation_history)
    /\ response' = "text"
    /\ pc' = AfterResponse("text")
    /\ attempt' = 0
    /\ UNCHANGED <<reason_frame, translation_mode, tool_call, tool_result,
                   store_vars, exec_count>>
    /\ UNCHANGED <<restarts, last_email_list, languages, out_lang, turn_calls>>

\* generate_content returns a function call, one of calls.
InferFunctionCall(calls) ==
    /\ pc = "infer"
    /\ \E call \in calls : tool_call' = call
    /\ pc' = "dispatch"
    /\ UNCHANGED <<reason_frame, translation_mode, attempt,
                   conversation_history, tool_result, response, store_vars,
                   exec_count>>
    /\ UNCHANGED extra_vars

\* generate_content returns plain text that is the string
\* "VOICE_RECORD_SEND": get_ai_response returns it like any other text.
InferSentinelText ==
    /\ pc = "infer"
    /\ conversation_history' = AppendAssistant(conversation_history)
    /\ response' = "VOICE_RECORD_SEND"
    /\ pc' = AfterResponse("VOICE_RECORD_SEND")
    /\ attempt' = 0
    /\ UNCHANGED <<reason_frame, translation_mode, tool_call, tool_result,
                   store_vars, exec_count>>
    /\ UNCHANGED extra_vars

\* generate_content raises without the overload signature: the except
\* branch returns the apology text.
InferError ==
    /\ pc = "infer"
    /\ response' = "error_text"
    /\ pc' = "tts"
    /\ attempt' = 0
    /\ turn_calls' = [turn_calls EXCEPT !.failed = "reason"]
    /\ UNCHANGED <<reason_frame, translation_mode, conversation_history,
                   tool_call, tool_result, store_vars, exec_count>>
    /\ UNCHANGED <<restarts, last_email_list, languages, out_lang>>

\* generate_content raises with '503' or 'overloaded'.
InferOverloaded ==
    /\ pc = "infer"
    /\ RetryOrRaise
    /\ UNCHANGED <<reason_frame, translation_mode, conversation_history,
                   tool_call, tool_result, response, store_vars, exec_count>>


\* The summary call returns: the turn's user entry is retracted.
SummaryOk ==
    /\ pc = "summary"
    /\ conversation_history' = RetractUser(conversation_history)
    /\ response' = "summary"
    /\ pc' = AfterResponse("summary")
    /\ attempt' = 0
    /\ UNCHANGED <<reason_frame, translation_mode, tool_call, tool_result,
                   store_vars, exec_count>>
    /\ UNCHANGED <<restarts, last_email_list, languages, out_lang, turn_calls>>

\* The summary's text is the string "VOICE_RECORD_SEND".
SummarySentinelText ==
    /\ pc = "summary"
    /\ conversation_history' = RetractUser(conversation_history)
    /\ response' = "VOICE_RECORD_SEND"
    /\ pc' = AfterResponse("VOICE_RECORD_SEND")
    /\ attempt' = 0
    /\ UNCHANGED <<reason_frame, translation_mode, tool_call, tool_result,
                   store_vars, exec_count>>
    /\ UNCHANGED extra_vars

\* The summary call raises without the overload signature.
SummaryError ==
    /\ pc = "summary"
    /\ response' = "error_text"
    /\ pc' = "tts"
    /\ attempt' = 0
    /\ turn_calls' = [turn_calls EXCEPT !.failed = "summary"]
    /\ UNCHANGED <<reason_frame, translation_mode, conversation_history,
                   tool_call, tool_result, store_vars, exec_count>>
    /\ UNCHANGED <<restarts, last_email_list, languages, out_lang>>

\* The summary call raises with '503' or 'overloaded'.
SummaryOverloaded ==
    /\ pc = "summary"
    /\ RetryOrRaise
    /\ UNCHANGED <<reason_frame, translation_mode, conversation_history,
                   tool_call, tool_result, response, store_vars, exec_count>>


\* text_to_speech returns audio, or None (every exception is caught inside),
\* on which process_voice only prints.
TextToSpeech ==
    /\ pc = "tts"
    /\ \E got_audio \in BOOLEAN :
          pc' = IF got_audio THEN "play" ELSE "returned"
    /\ UNCHANGED <<reason_frame, translation_mode, attempt,
                   conversation_history, tool_call, tool_result, response,
                   store_vars, exec_count>>
    /\ UNCHANGED extra_vars

\* One pass of play_audio's write loop in the foreground: "if not running:
\* break", else stream.write of the next chunk.
PlayAudioChunk ==
    /\ pc \in {"play", "vrs_announce_play", "vrs_report_play"}
    /\ running
    /\ turn_calls.written < MaxPlayChunks
    /\ turn_calls' = [turn_calls EXCEPT !.written = @ + 1]
    /\ UNCHANGED <<reason_frame, translation_mode, attempt, pc,
                   conversation_history, tool_call, tool_result, response,
                   store_vars, exec_count>>
    /\ UNCHANGED <<restarts, last_email_list, languages, out_lang>>

\* play_audio returns: all chunks written, the loop left on shutdown, or an
\* exception that process_voice catches.
PlayAudioDone ==
    /\ pc = "play"
    /\ \E raised \in BOOLEAN :
          pc' = IF raised THEN RaisedInTurn ELSE "returned"
    /\ UNCHANGED <<reason_frame, translation_mode, attempt,
                   conversation_history, tool_call, tool_result, response,
                   store_vars, exec_count>>
    /\ UNCHANGED extra_vars

\* ------------------------------------------------------------- execute_tool

\* What every dispatch leaves alone.
dispatch_frame == <<reason_frame, conversation_history, tool_call>>

ExternalTools == {"gmail_send", "gmail_send_photo", "camera_capture"}

\* execute_tool -> alarm_set(time_str): validation, append, id advance, save.
ExecAlarmSet ==
    /\ pc = "dispatch"
    /\ tool_call.tool = "alarm_set"
    /\ exec_count' = exec_count + 1
    /\ LET check == AlarmTimeCheck(tool_call.time)
       IN IF check = "ok"
          THEN /\ alarms' = AlarmAppend(alarms, alarm_next_id, tool_call.time)
               /\ alarm_next_id' = alarm_next_id + 1
               /\ \E io_ok \in BOOLEAN :
                     alarm_file' = SaveAlarms(alarm_file, alarms',
                                              alarm_next_id', io_ok)
               /\ accepted' = accepted + 1
               /\ live' = live \cup {<<accepted + 1, tool_call.time>>}
               /\ ids_seen' = ids_seen \cup {alarms'[Len(alarms')].id}
               /\ tool_result' = ToolText("alarm_set_ok")
          ELSE /\ UNCHANGED store_vars
               /\ tool_result' = IF check = "range"
                                 THEN ToolText("alarm_time_invalid")
                                 ELSE ToolText("alarm_format_invalid")
    /\ pc' = "summary"
    /\ UNCHANGED <<dispatch_frame, translation_mode, attempt, response>>
    /\ UNCHANGED extra_vars

\* execute_tool -> alarm_list()
ExecAlarmList ==
    /\ pc = "dispatch"
    /\ tool_call.tool = "alarm_list"
    /\ exec_count' = exec_count + 1
    /\ tool_result' = AlarmListText(alarms)
    /\ pc' = "summary"
    /\ UNCHANGED <<dispatch_frame, translation_mode, attempt, response, store_vars>>
    /\ UNCHANGED extra_vars

\* execute_tool -> alarm_delete(alarm_id): int(), first match popped, save.
ExecAlarmDelete ==
    /\ pc = "dispatch"
    /\ tool_call.tool = "alarm_delete"
    /\ exec_count' = exec_count + 1
    /\ IF ~tool_call.id_numeric
       THEN /\ tool_result' = ToolText("alarm_id_invalid")
            /\ UNCHANGED store_vars
       ELSE LET i == AlarmIndexOf(alarms, tool_call.alarm_id)
            IN IF i = 0
               THEN /\ tool_result' = ToolText("alarm_not_found")
                    /\ UNCHANGED store_vars
               ELSE /\ alarms' = AlarmPop(alarms, i)
                    /\ \E io_ok \in BOOLEAN :
                          alarm_file' = SaveAlarms(alarm_file, alarms',
                                                   alarm_next_id, io_ok)
                    /\ live' = {e \in live : e[1] # tool_call.alarm_id}
                    /\ tool_result' = ToolText("alarm_deleted")
                    /\ UNCHANGED <<alarm_next_id, accepted, ids_seen>>
    /\ pc' = "summary"
    /\ UNCHANGED <<dispatch_frame, translation_mode, attempt, response>>
    /\ UNCHANGED extra_vars

\* execute_tool -> voice_record_send: the sentinel when the messenger is
\* initialised, which get_ai_response returns at once and process_voice
\* answers with record_and_send_voice_message.
ExecVoiceRecordSend ==
    /\ pc = "dispatch"
    /\ tool_call.tool = "voice_record_send"
    /\ exec_count' = exec_count + 1
    /\ IF firebase_messenger
       THEN /\ tool_result' = ToolText("VOICE_RECORD_SEND")
            /\ response' = "VOICE_RECORD_SEND"
            /\ pc' = AfterResponse("VOICE_RECORD_SEND")
            /\ attempt' = 0
       ELSE /\ tool_result' = ToolText("voice_disabled")
            /\ pc' = "summary"
            /\ UNCHANGED <<response, attempt>>
    /\ UNCHANGED <<dispatch_frame, translation_mode, store_vars>>
    /\ UNCHANGED extra_vars

\* execute_tool -> translation_mode_on / translation_mode_off
ExecTranslationMode ==
    /\ pc = "dispatch"
    /\ tool_call.tool \in {"translation_mode_on", "translation_mode_off"}
    /\ exec_count' = exec_count + 1
    /\ translation_mode' = (tool_call.tool = "translation_mode_on")
    /\ languages' = IF tool_call.tool = "translation_mode_on"
                    THEN tool_call.langs ELSE languages
    /\ tool_result' = IF tool_call.tool = "translation_mode_on"
                      THEN ToolText("translation_on")
                      ELSE ToolText("translation_off")
    /\ pc' = "summary"
    /\ UNCHANGED <<dispatch_frame, attempt, response, store_vars>>
    /\ UNCHANGED <<restarts, last_email_list, out_lang, turn_calls>>

\* execute_tool -> gmail_send, gmail_send_photo or camera_capture: it returns its text, or raises an
\* exception it does not catch, on which get_ai_response's except branch
\* returns the apology text.
ExecExternal ==
    /\ pc = "dispatch"
    /\ tool_call.tool \in ExternalTools
    /\ exec_count' = exec_count + 1
    /\ \E raised \in BOOLEAN :
          IF raised
          THEN /\ response' = "error_text"
               /\ pc' = "tts"
               /\ attempt' = 0
               /\ tool_result' = tool_result
          ELSE /\ tool_result' = ToolText("tool_text")
               /\ pc' = "summary"
               /\ UNCHANGED <<response, attempt>>
    /\ UNCHANGED <<dispatch_frame, translation_mode, store_vars>>
    /\ UNCHANGED extra_vars

\* What a mail dispatch leaves alone besides the alarm store.
mail_frame == <<dispatch_frame, translation_mode, store_vars, restarts,
                languages, out_lang>>

\* A call of the mail backend and what it was given or answered.
MailCall(op, id, to_email, listing) ==
    [op |-> op, id |-> id, to_email |-> to_email, listing |-> listing]

\* exec_count, the record of the backend call, and where the dispatch goes:
\* to the summary call with the tool's text, or, when the tool raised an
\* exception it does not catch, to the apology text.
MailReturn(result, raised, call) ==
    /\ exec_count' = exec_count + 1
    /\ turn_calls' = [turn_calls EXCEPT !.mail = Append(@, call)]
    /\ IF raised
       THEN /\ response' = "error_text"
            /\ pc' = "tts"
            /\ attempt' = 0
            /\ tool_result' = tool_result
       ELSE /\ tool_result' = result
            /\ pc' = "summary"
            /\ UNCHANGED <<response, attempt>>

\* execute_tool -> gmail_list: no service or messages.list fails (the list
\* is not touched), or it returns one of listings and the entries are
\* fetched until a messages.get raises (HttpError, answered with a text, or
\* another exception, which propagates).
ExecGmailList(listings) ==
    /\ pc = "dispatch"
    /\ tool_call.tool = "gmail_list"
    /\ \/ /\ last_email_list' = last_email_list
          /\ \E raised \in BOOLEAN :
                MailReturn(ToolText("mail_error"), raised,
                           MailCall("list_failed", NoneStr, NoneStr, <<>>))
       \/ \E listing \in listings :
             \E fetched \in 0..Len(listing) :
                /\ last_email_list' =
                       GmailListEffect(last_email_list, listing, fetched)
                /\ \E raised \in BOOLEAN :
                      /\ raised => fetched < Len(listing)
                      /\ MailReturn(IF listing = <<>> THEN ToolText("no_mail")
                                    ELSE IF fetched < Len(listing)
                                         THEN ToolText("mail_error")
                                         ELSE GmailListText(listing),
                                    raised,
                                    MailCall("list", NoneStr, NoneStr, listing))
    /\ UNCHANGED mail_frame

\* execute_tool -> gmail_read(msg_id) after the resolution of message_id.
ExecGmailRead ==
    /\ pc = "dispatch"
    /\ tool_call.tool = "gmail_read"
    /\ LET r == ResolveMessageId(tool_call.message_id, last_email_list)
       IN IF r.found
          THEN \E raised \in BOOLEAN :
                  MailReturn(ToolText("mail_text"), raised,
                             MailCall("read", r.id, NoneStr, <<>>))
          ELSE /\ exec_count' = exec_count + 1
               /\ tool_result' = ToolText("mail_not_found")
               /\ pc' = "summary"
               /\ UNCHANGED <<response, attempt, turn_calls>>
    /\ UNCHANGED <<mail_frame, last_email_list>>

\* execute_tool -> gmail_reply(msg_id, body, to_email, attach_photo) after
\* the resolution of message_id.
ExecGmailReply ==
    /\ pc = "dispatch"
    /\ tool_call.tool = "gmail_reply"
    /\ LET r == ResolveMessageId(tool_call.message_id, last_email_list)
       IN IF r.found
          THEN \E raised \in BOOLEAN :
                  MailReturn(ToolText("mail_replied"), raised,
                             MailCall("reply", r.id, r.to_email, <<>>))
          ELSE /\ exec_count' = exec_count + 1
               /\ tool_result' = ToolText("mail_not_found_list_first")
               /\ pc' = "summary"
               /\ UNCHANGED <<response, attempt, turn_calls>>
    /\ UNCHANGED <<mail_frame, last_email_list>>

\* execute_tool's else branch: an unknown tool name is reported as text.
ExecUnknown ==
    /\ pc = "dispatch"
    /\ tool_call.tool \notin ExternalTools \cup
          {"gmail_list", "gmail_read", "gmail_reply",
           "alarm_set", "alarm_list", "alarm_delete", "voice_record_send",
           "translation_mode_on", "translation_mode_off"}
    /\ exec_count' = exec_count + 1
    /\ tool_result' = ToolText("unknown_tool")
    /\ pc' = "summary"
    /\ UNCHANGED <<dispatch_frame, translation_mode, attempt, response, store_vars>>
    /\ UNCHANGED extra_vars

\* ------------------------------------------- record_and_send_voice_message

\* What the steps of the sequence leave alone.
vrs_frame == <<running, use_button, firebase_messenger, translation_mode,
               turn, frames, text, attempt, tool_call, tool_result, store_vars,
               record_lock, is_recording, background_vars, exec_count,
               hist_before>>

\* A slip: the history is left as it is.
VrsHistoryKept(h) == h

\* conversation_history = [] on entry.
VrsHistoryOnEntry(h) == <<>>

\* record_and_send_voice_message starts.
VrsBegin ==
    /\ pc = "vrs_begin"
    /\ conversation_history' = VrsHistoryOnEntry(conversation_history)
    /\ in_vrs' = TRUE
    /\ response' = "ready"
    /\ pc' = "vrs_announce_tts"
    /\ UNCHANGED vrs_frame
    /\ UNCHANGED <<restarts, last_email_list, languages, out_lang, turn_calls>>

\* The announcement is synthesized (None skips the playback).
VrsAnnounceTts ==
    /\ pc = "vrs_announce_tts"
    /\ \E got_audio \in BOOLEAN :
          pc' = IF got_audio THEN "vrs_announce_play" ELSE "vrs_wait"
    /\ UNCHANGED <<vrs_frame, conversation_history, in_vrs, response>>
    /\ UNCHANGED extra_vars

\* play_audio(announce) returns, or raises (caught by process_voice).
VrsAnnouncePlayDone ==
    /\ pc = "vrs_announce_play"
    /\ \E raised \in BOOLEAN :
          /\ pc' = IF raised THEN RaisedInTurn ELSE "vrs_wait"
          /\ in_vrs' = ~raised
    /\ UNCHANGED <<vrs_frame, conversation_history, response>>
    /\ UNCHANGED extra_vars

\* The wait for the button ends: pressed, or running is False (return);
\* without a button record_audio_auto starts at once.
VrsWait ==
    /\ pc = "vrs_wait"
    /\ IF ~use_button THEN pc' = "rec_auto" /\ in_vrs' = TRUE
       ELSE IF ~running THEN pc' = "returned" /\ in_vrs' = FALSE
       ELSE pc' = "rec_begin" /\ in_vrs' = TRUE
    /\ UNCHANGED <<vrs_frame, conversation_history, response>>
    /\ UNCHANGED extra_vars

\* transcribe_audio, best effort: its result only becomes the text sent.
VrsTranscribe ==
    /\ pc = "vrs_transcribe"
    /\ pc' = "vrs_send"
    /\ \E outcome \in {"text", "empty", "failed"} :
          turn_calls' = [turn_calls EXCEPT !.vrs_text = outcome]
    /\ UNCHANGED <<vrs_frame, conversation_history, in_vrs, response>>
    /\ UNCHANGED <<restarts, last_email_list, languages, out_lang>>

\* send_voice_to_phone: without a messenger it returns False at once;
\* otherwise send_message is called once and its result (False when it
\* raises) is returned.
VrsSend ==
    /\ pc = "vrs_send"
    /\ IF firebase_messenger
       THEN /\ \E sent \in BOOLEAN :
                  response' = IF sent THEN "sent" ELSE "send_failed"
            /\ turn_calls' = [turn_calls EXCEPT !.forwarded = @ + 1]
       ELSE /\ response' = "send_failed"
            /\ turn_calls' = turn_calls
    /\ pc' = "vrs_report_tts"
    /\ UNCHANGED <<vrs_frame, conversation_history, in_vrs>>
    /\ UNCHANGED <<restarts, last_email_list, languages, out_lang>>

\* The outcome (recording failed, sent, send failed) is synthesized.
VrsReportTts ==
    /\ pc = "vrs_report_tts"
    /\ \E got_audio \in BOOLEAN :
          /\ pc' = IF got_audio THEN "vrs_report_play" ELSE "returned"
          /\ in_vrs' = got_audio
    /\ UNCHANGED <<vrs_frame, conversation_history, response>>
    /\ UNCHANGED extra_vars

\* The outcome has been played; the sequence and the turn end.
VrsReportPlayDone ==
    /\ pc = "vrs_report_play"
    /\ pc' = "returned"
    /\ in_vrs' = FALSE
    /\ UNCHANGED <<vrs_frame, conversation_history, response>>
    /\ UNCHANGED extra_vars

\* ------------------------------------------------------------ the wall clock

\* datetime.now().strftime("%H:%M") when clock minutes have passed.
CurrentTime(minutes) == Strftime(StartMinute + minutes)

\* A minute passes.
Tick ==
    /\ clock < MaxTicks
    /\ clock' = clock + 1
    /\ UNCHANGED <<running, use_button, firebase_messenger, translation_mode,
                   pc, turn, frames, in_vrs, text, attempt, conversation_history,
                   tool_call, tool_result, response, store_vars, record_lock,
                   is_recording, alarm_vars, listener_vars, exec_count,
                   hist_before>>
    /\ UNCHANGED extra_vars

\* -------------------------------------- the alarm monitor (its own thread)

\* What the alarm monitor never touches.
alarm_frame == <<running, use_button, firebase_messenger, translation_mode,
                 pc, turn, frames, in_vrs, text, attempt, conversation_history,
                 tool_call, tool_result, response, store_vars, is_recording,
                 clock, listener_vars, exec_count, hist_before>>

\* A slip: the key is not recorded.
MarkTriggeredNever(triggered, key) == triggered

\* A slip: every key is deleted at the end of a cycle.
PruneTriggeredAll(triggered, current_minute) == {}

TriggerKeyMinuteOnly(alarm_id, current_time) == <<0, current_time>>

\* trigger_key = f"{alarm_id}_{current_time}".  current_time is always the
\* five characters of strftime, so the string determines the pair and
\* k.endswith(current_minute) compares the pair's second component.
TriggerKey(alarm_id, current_time) == <<alarm_id, current_time>>

\* last_triggered[trigger_key] = True
MarkTriggered(triggered, key) == triggered \cup {key}

\* The keys that do not end with the cycle's minute are deleted.
PruneTriggered(triggered, current_minute) ==
    {k \in triggered : k[2] = current_minute}

\* A poll cycle begins: now = datetime.now().
AlarmPollBegin ==
    /\ al_pc = "sleep"
    /\ running
    /\ polls < MaxPolls
    /\ polls' = polls + 1
    /\ al_now' = clock
    /\ al_idx' = 1
    /\ al_pc' = "scan"
    /\ scan' = [ids |-> {alarms[i].id : i \in 1..Len(alarms)}, seen |-> {}]
    /\ UNCHANGED <<alarm_frame, record_lock, al_alarm, last_triggered,
                   announced, skipped, unvoiced>>
    /\ UNCHANGED extra_vars

\* "while running" ends the thread.
AlarmExit ==
    /\ al_pc = "sleep"
    /\ ~running
    /\ al_pc' = "exit"
    /\ UNCHANGED <<alarm_frame, record_lock, al_now, al_idx, al_alarm,
                   last_triggered, polls, announced, skipped, unvoiced, scan>>
    /\ UNCHANGED extra_vars

\* One pass of "for alarm in alarms" up to the lock: disabled, already
\* triggered and other-minute alarms are passed over; a match is recorded
\* in last_triggered before the lock is requested.
AlarmScanStep ==
    /\ al_pc = "scan"
    /\ al_idx <= Len(alarms)
    /\ LET alarm == alarms[al_idx]
           key == TriggerKey(alarm.id, CurrentTime(al_now))
       IN IF ~alarm.enabled \/ key \in last_triggered
             \/ alarm.time # CurrentTime(al_now)
          THEN /\ al_idx' = al_idx + 1
               /\ UNCHANGED <<al_pc, al_alarm, last_triggered>>
          ELSE /\ last_triggered' = MarkTriggered(last_triggered, key)
               /\ al_alarm' = alarm
               /\ al_pc' = "lock"
               /\ UNCHANGED al_idx
    /\ scan' = [scan EXCEPT !.seen = @ \cup {alarms[al_idx].id}]
    /\ UNCHANGED <<alarm_frame, record_lock, al_now, polls, announced, skipped,
                   unvoiced>>
    /\ UNCHANGED extra_vars

\* "with record_lock": the acquisition, which waits while the lock is held.
AlarmLockAcquire ==
    /\ al_pc = "lock"
    /\ record_lock = "none"
    /\ record_lock' = "alarm"
    /\ al_pc' = "check"
    /\ UNCHANGED <<alarm_frame, al_now, al_idx, al_alarm, last_triggered,
                   polls, announced, skipped, unvoiced, scan>>
    /\ UNCHANGED extra_vars

\* "if not is_recording": the announcement starts, or the with block ends.
AlarmCheckRecording ==
    /\ al_pc = "check"
    /\ IF is_recording
       THEN /\ skipped' = skipped \cup
                  {[id |-> al_alarm.id, minute |-> al_now, poll |-> polls]}
            /\ record_lock' = "none"
            /\ al_idx' = al_idx + 1
            /\ al_pc' = "scan"
       ELSE /\ al_pc' = "tts"
            /\ UNCHANGED <<skipped, record_lock, al_idx>>
    /\ UNCHANGED <<alarm_frame, al_now, al_alarm, last_triggered, polls, announced,
                   unvoiced, scan>>
    /\ UNCHANGED extra_vars

\* text_to_speech for the alarm: audio, or None, which ends the with block.
AlarmTts ==
    /\ al_pc = "tts"
    /\ \E got_audio \in BOOLEAN :
          IF got_audio
          THEN /\ al_pc' = "play"
               /\ announced' = Append(announced,
                      [id |-> al_alarm.id, minute |-> al_now, at |-> clock])
               /\ UNCHANGED <<record_lock, al_idx, unvoiced>>
          ELSE /\ record_lock' = "none"
               /\ al_idx' = al_idx + 1
               /\ al_pc' = "scan"
               /\ unvoiced' = unvoiced \cup
                     {[id |-> al_alarm.id, minute |-> al_now]}
               /\ UNCHANGED announced
    /\ UNCHANGED <<alarm_frame, al_now, al_alarm, last_triggered, polls, skipped,
                   scan>>
    /\ UNCHANGED extra_vars

\* play_audio returns or raises (caught); the with block releases the lock.
AlarmPlayDone ==
    /\ al_pc = "play"
    /\ record_lock' = "none"
    /\ al_idx' = al_idx + 1
    /\ al_pc' = "scan"
    /\ UNCHANGED <<alarm_frame, al_now, al_alarm, last_triggered, polls,
                   announced, skipped, unvoiced, scan>>
    /\ UNCHANGED extra_vars

\* The for loop is exhausted: stale keys are pruned and the thread sleeps.
AlarmScanEnd ==
    /\ al_pc = "scan"
    /\ al_idx > Len(alarms)
    /\ last_triggered' = PruneTriggered(last_triggered, CurrentTime(al_now))
    /\ al_pc' = "sleep"
    /\ UNCHANGED <<alarm_frame, record_lock, al_now, al_idx, al_alarm, polls,
                   announced, skipped, unvoiced, scan>>
    /\ UNCHANGED extra_vars

\* ------------------------------- the listener (on_voice_message_received)

\* What the listener never touches.
listener_frame == <<running, use_button, firebase_messenger, translation_mode,
                    pc, turn, frames, in_vrs, text, attempt, conversation_history,
                    tool_call, tool_result, response, store_vars, record_lock,
                    is_recording, clock, alarm_vars, exec_count, hist_before>>

\* A voice note arrives: the callback starts play_audio(notification).
ListenerReceive ==
    /\ ls_pc = "idle"
    /\ firebase_messenger
    /\ running
    /\ messages < MaxMessages
    /\ messages' = messages + 1
    /\ ls_pc' = "tone"
    /\ ls_steps' = <<>>
    /\ UNCHANGED listener_frame
    /\ UNCHANGED extra_vars

\* play_audio(notification), before the try: it returns, or it raises
\* (audio.open, stream.write) and the exception leaves the callback.
ListenerToneDone ==
    /\ ls_pc = "tone"
    /\ \E raised \in BOOLEAN :
          /\ ls_pc' = IF raised THEN "raised" ELSE "download"
          /\ ls_steps' = IF raised THEN ls_steps ELSE Append(ls_steps, "tone")
    /\ UNCHANGED <<listener_frame, messages>>
    /\ UNCHANGED extra_vars

\* The exception is in the messenger's polling code, which may go on to
\* the next message.
ListenerPollsAgain ==
    /\ ls_pc = "raised"
    /\ ls_pc' = "idle"
    /\ ls_steps' = <<>>
    /\ UNCHANGED <<listener_frame, messages>>
    /\ UNCHANGED extra_vars

\* Download and conversion: the note is played, or (no URL, download
\* failed or raised) the callback returns, or (conversion failed) only the
\* mark is left.
ListenerDownload ==
    /\ ls_pc = "download"
    /\ \E outcome \in {"wav", "no_audio", "no_wav"} :
          /\ ls_pc' = CASE outcome = "wav" -> "note_play"
                        [] outcome = "no_audio" -> "idle"
                        [] OTHER -> "mark"
          /\ ls_steps' = CASE outcome = "wav" ->
                                ls_steps \o <<"download", "transcode">>
                           [] outcome = "no_audio" -> <<>>
                           [] OTHER -> Append(ls_steps, "download")
    /\ UNCHANGED <<listener_frame, messages>>
    /\ UNCHANGED extra_vars

\* play_audio(wav_data) returns, or raises (caught: the callback ends).
ListenerNotePlayDone ==
    /\ ls_pc = "note_play"
    /\ \E raised \in BOOLEAN :
          /\ ls_pc' = IF raised THEN "idle" ELSE "mark"
          /\ ls_steps' = IF raised THEN <<>> ELSE Append(ls_steps, "play")
    /\ UNCHANGED <<listener_frame, messages>>
    /\ UNCHANGED extra_vars

\* mark_as_played returns, or raises (caught: the callback ends).
ListenerMark ==
    /\ ls_pc = "mark"
    /\ \E raised \in BOOLEAN :
          /\ ls_pc' = IF raised THEN "idle" ELSE "marked"
          /\ ls_steps' = IF raised THEN <<>> ELSE Append(ls_steps, "mark")
    /\ UNCHANGED <<listener_frame, messages>>
    /\ UNCHANGED extra_vars

\* The callback returns.
ListenerReturn ==
    /\ ls_pc = "marked"
    /\ ls_pc' = "idle"
    /\ ls_steps' = <<>>
    /\ UNCHANGED <<listener_frame, messages>>
    /\ UNCHANGED extra_vars

\* ------------------------------------------------------------ specifications

\* A function call with the parameters left at their defaults.
Call(tool) == [NoCall EXCEPT !.tool = tool]

\* The function calls the reasoning backend proposes in the conversation
\* specification: a mail tool, the push-voice tool, the translation
\* switches and a name execute_tool does not know.
ChatCalls == {Call(t) : t \in {"gmail_send", "voice_record_send",
                               "translation_mode_on", "translation_mode_off",
                               "no_such_tool"}}

\* The transcripts of the conversation specification.
ChatTexts == {<<104, 105>>}

\* The capture steps of both capture functions.
Capture ==
    \/ CaptureOpenError
    \/ RecLockBegin
    \/ RecSetFlag
    \/ CaptureChunk
    \/ CaptureBreak
    \/ RecLockEnd
    \/ RecClearFlag
    \/ RecordAuto

\* The backend answers with text or fails for good.
Reasoning ==
    \/ GetAiResponseEnter
    \/ InferPlainText
    \/ InferError
    \/ TextToSpeech
    \/ PlayAudioDone

\* The summary call after a tool answers or fails for good.
Summary ==
    \/ SummaryOk
    \/ SummaryError

\* The backend is overloaded ('503').
Overloaded ==
    \/ InferOverloaded
    \/ SummaryOverloaded

\* The backend's text is the string process_voice takes for the switch to
\* the push-voice sequence.
SentinelText ==
    \/ InferSentinelText
    \/ SummarySentinelText

\* The push-voice-record-and-send sequence.
VoiceRecordSend ==
    \/ VrsBegin
    \/ VrsAnnounceTts
    \/ VrsAnnouncePlayDone
    \/ VrsWait
    \/ VrsTranscribe
    \/ VrsSend
    \/ VrsReportTts
    \/ VrsReportPlayDone

\* The conversation specification: the main thread alone, any mix of
\* plain-text, tool-call, translation, failed and retried turns.
Init ==
    /\ InitCommon
    /\ EmptyStore
    /\ use_button \in BOOLEAN
    /\ firebase_messenger = TRUE

Next ==
    \/ StartTurn(MaxTurns)
    \/ MainLoopNext
    \/ Capture
    \/ Transcribe(ChatTexts)
    \/ Reasoning
    \/ Summary
    \/ Overloaded
    \/ InferFunctionCall(ChatCalls)
    \/ ExecVoiceRecordSend
    \/ ExecTranslationMode
    \/ ExecExternal
    \/ ExecUnknown
    \/ SentinelText
    \/ VoiceRecordSend

Spec == Init /\ [][Next]_vars

\* C1: conversation_history never holds more than 10 entries, also right
\* after a plain-text turn has appended its assistant entry.
HistoryAtMostTen == Len(conversation_history) <= HistoryCap

\* C2: when a turn whose tool returned a result has ended, whatever became
\* of the summary call, conversation_history is as long as it was before the
\* turn appended its user entry.
ToolTurnRestoresHistory ==
    (pc = "returned" /\ exec_count > 0 /\ tool_result # NoResult)
        => Len(conversation_history) = hist_before

\* C3: execute_tool is invoked at most once in a turn, retries included.
ExecuteToolOncePerTurn == exec_count <= 1

\* C17: get_ai_response is entered at most MAX_RETRIES times in a turn;
\* retry_on_error waits RETRY_DELAY before the second attempt and twice
\* that before the third; when the last attempt fails with an overload too
\* the error ends the turn; and a failure without the overload signature
\* is answered with the apology text at once, with no further attempt.
ReasoningRetriedAtMostThrice ==
    [][/\ turn_calls'.reason <= MAX_RETRIES
       /\ Len(turn_calls'.waits) <= MAX_RETRIES - 1
       /\ \A i \in 1..Len(turn_calls'.waits) :
             /\ turn_calls'.waits[i] = i * RETRY_DELAY
             /\ i > 1 => turn_calls'.waits[i] > turn_calls'.waits[i - 1]
       /\ turn_calls'.reason > turn_calls.reason
             => Len(turn_calls.waits) = turn_calls.reason
       /\ (pc \in {"infer", "summary"} /\ pc' = "reason")
             => /\ turn_calls.reason < MAX_RETRIES
                /\ Len(turn_calls'.waits) = Len(turn_calls.waits) + 1
       /\ (pc \in {"infer", "summary"} /\ pc' = "returned")
             => turn_calls.reason = MAX_RETRIES
       /\ (pc \in {"infer", "summary"} /\ response' = "error_text")
             => /\ pc' = "tts"
                /\ turn_calls'.reason = turn_calls.reason
                /\ turn_calls'.waits = turn_calls.waits]_vars

\* C17's case: the third attempt has failed with an overload and the turn
\* is over, after waits of 2 and 4 seconds.
ThirdAttemptOverloaded ==
    /\ pc = "returned"
    /\ turn_calls.reason = MAX_RETRIES
    /\ turn_calls.waits = <<RETRY_DELAY, 2 * RETRY_DELAY>>
    /\ response = "none"

\* C18: when the transcription call or the translation call has failed
\* with an overload and the turn has given up on that step, the backend
\* call was made MAX_RETRIES times.
OverloadedStepRetried ==
    /\ turn_calls.overloaded = "stt" => turn_calls.stt = MAX_RETRIES
    /\ turn_calls.overloaded = "translate"
          => turn_calls.translate = MAX_RETRIES

\* C27: the push-voice sequence runs only in a turn in which execute_tool
\* was called with voice_record_send and returned the sentinel, the
\* messenger being initialised; and the sentinel is never synthesised or
\* played.
PushVoiceOnlyAfterSentinelDispatch ==
    /\ (pc = "vrs_begin" \/ in_vrs)
          => /\ exec_count > 0
             /\ tool_call.tool = "voice_record_send"
             /\ tool_result = ToolText("VOICE_RECORD_SEND")
             /\ firebase_messenger
    /\ pc \in {"tts", "play"} => response # "VOICE_RECORD_SEND"

\* h is the last Len(h) entries of l, in l's order.
IsTail(h, l) ==
    /\ Len(h) <= Len(l)
    /\ h = SubSeq(l, Len(l) - Len(h) + 1, Len(l))

\* C23: every step that changes conversation_history keeps it a tail, in
\* order, of what was appended and not retracted: get_ai_response's entry
\* puts the transcript last and drops only oldest entries, the plain-text
\* answer is appended, the tool branch removes the turn's own user entry,
\* which is the last one, and nothing else; the only other change empties
\* the history for the push-voice sequence.
HistoryIsTailOfAppended ==
    [][LET enter == pc = "reason" /\ pc' = "infer"
           answer == /\ pc = "infer"
                     /\ pc' \in {"tts", "vrs_begin"}
                     /\ response' # "error_text"
           retract == /\ pc = "summary"
                      /\ pc' \in {"tts", "vrs_begin"}
                      /\ response' # "error_text"
       IN
       /\ enter
             => /\ conversation_history' # <<>>
                /\ conversation_history'[Len(conversation_history')]
                       = UserEntry(text)
                /\ IsTail(conversation_history',
                          Append(conversation_history, UserEntry(text)))
                /\ Len(conversation_history')
                       >= IF Len(conversation_history) < HistoryCap
                          THEN Len(conversation_history) + 1
                          ELSE HistoryCap
       /\ answer
             => conversation_history'
                    = Append(conversation_history, AssistantEntry)
       /\ retract
             => /\ conversation_history # <<>>
                /\ conversation_history[Len(conversation_history)]
                       = UserEntry(text)
                /\ conversation_history'
                       = SubSeq(conversation_history, 1,
                                Len(conversation_history) - 1)
       /\ ~(enter \/ answer \/ retract)
             => \/ conversation_history' = conversation_history
                \/ conversation_history' = <<>> /\ in_vrs']_vars

\* C23's case: a tool turn has retracted its user entry after the oldest
\* entry had been evicted for it.
ToolTurnRetractedAfterEviction ==
    /\ pc = "tts"
    /\ response = "summary"
    /\ Len(conversation_history) = HistoryCap - 1
    /\ hist_before >= HistoryCap

\* C24: a turn appends its transcript to the history at most once, and a
\* plain-text answer leaves the turn's entries as one user entry followed
\* by one assistant entry.
TranscriptAppendedOnce ==
    /\ turn_calls.appended <= 1
    /\ (pc \in {"tts", "play", "returned"} /\ response = "text")
          => /\ turn_calls.appended = 1
             /\ Len(conversation_history) >= 2
             /\ SubSeq(conversation_history, Len(conversation_history) - 1,
                       Len(conversation_history))
                    = <<UserEntry(text), AssistantEntry>>

\* C25: a turn in which a backend call of transcription, reasoning, the
\* summary or translation failed for good ends only after a user-facing
\* error string was handed to speech synthesis.
PermanentFailureIsSpoken ==
    (pc = "returned" /\ turn_calls.failed # "none")
        => response \in {"error_text", "translation_error"}

\* ------------------------------------------------- the fair specification

\* The messenger is initialised or init_firebase_messenger has failed.
InitLive ==
    /\ InitCommon
    /\ EmptyStore
    /\ use_button \in BOOLEAN
    /\ firebase_messenger \in BOOLEAN

\* The conversation specification with the shutdown signal and the end of
\* main()'s loop.
NextLive ==
    \/ StartTurn(MaxLiveTurns)
    \/ MainLoopNext
    \/ MainExit
    \/ Shutdown
    \/ Capture
    \/ Transcribe(ChatTexts)
    \/ Reasoning
    \/ Summary
    \/ Overloaded
    \/ InferFunctionCall(ChatCalls)
    \/ ExecVoiceRecordSend
    \/ ExecTranslationMode
    \/ ExecExternal
    \/ ExecUnknown
    \/ SentinelText
    \/ VoiceRecordSend
    \/ PlayAudioChunk

\* record_and_send_voice_message polls the button: only the user ends
\* that wait while running is True.
WaitingForButton == pc = "vrs_wait" /\ use_button /\ running

\* A step the main thread takes by itself once a turn has started: every
\* step of NextLive but the user's (the press that starts a turn, the
\* press the push-voice sequence waits for, the signal).
MainThreadStep ==
    /\ pc \notin {"idle", "exit"}
    /\ ~WaitingForButton
    /\ NextLive
    /\ running' = running

\* The main thread is never stopped for good: the interpreter keeps
\* running it, and each blocking call of a turn returns or raises.
SpecLive ==
    /\ InitLive
    /\ [][NextLive]_vars
    /\ WF_vars(MainThreadStep)
    /\ WF_vars(MainExit)

\* A turn has started and has not come back to main()'s loop.
InTurn == pc \notin {"idle", "exit"}

\* C19 as stated: the process ends only after the shutdown flag is set,
\* and every started turn comes back to Idle.
EveryTurnReturnsToIdle ==
    /\ [](pc = "exit" => ~running)
    /\ InTurn ~> (pc = "idle")

\* C19, amended: the process ends only after the shutdown flag is set,
\* and every started turn comes back to Idle or is in the push-voice
\* sequence waiting for the button to be pressed.
TurnReturnsToIdleOrWaitsForButton ==
    /\ [](pc = "exit" => ~running)
    /\ InTurn ~> (pc = "idle" \/ WaitingForButton)

\* A turn is in the push-voice sequence or has ended in it.
InPushVoiceTurn ==
    \/ in_vrs
    \/ /\ pc = "returned"
       /\ response \in {"ready", "record_failed", "sent", "send_failed"}

\* C28: from the start of the push-voice sequence to the end of its turn
\* conversation_history is empty, however the sequence ends.
PushVoiceLeavesHistoryEmpty ==
    InPushVoiceTurn => conversation_history = <<>>

\* C28's case: shutdown has ended the wait for the button in a push-voice
\* turn whose transcript had been appended to the history.
PushVoiceWaitEndedByShutdown ==
    /\ pc = "returned"
    /\ response = "ready"
    /\ use_button
    /\ ~running
    /\ turn_calls.appended = 1
    /\ conversation_history = <<>>

\* C29: once the push-voice sequence has recorded a buffer and
\* transcribe_audio has returned or failed, the audio is handed to
\* send_message exactly once and the send's outcome is what is reported.
RecordedAudioForwardedOnce ==
    (/\ turn_calls.vrs_text # "none"
     /\ pc \in {"vrs_report_tts", "vrs_report_play", "returned"})
        => /\ turn_calls.forwarded = 1
           /\ response \in {"sent", "send_failed"}

\* C19's case: the capture raised, main()'s loop caught it and the shutdown
\* flag is unset.
CaptureRaisedAndLoopGoesOn ==
    /\ pc = "returned"
    /\ turn_calls.capture = "error"
    /\ running

\* ------------------------------------------- the alarm-store specification

T0700 == <<"0", "7", ":", "0", "0">>
T0701 == <<"0", "7", ":", "0", "1">>
T700 == <<"7", ":", "0", "0">>
T2500 == <<"2", "5", ":", "0", "0">>
T2400 == <<"2", "4", ":", "0", "0">>
T0760 == <<"0", "7", ":", "6", "0">>
TMinus == <<"-", "1", ":", "0", "0">>
TNoColon == <<"0", "7", "0", "0">>
TLetters == <<"a", "b", ":", "c", "d">>
TEmpty == <<>>
TSeconds == <<"0", "7", ":", "0", "0", ":", "0", "0">>

\* Times with the hour outside 0..23 or the minute outside 0..59.
OutOfRangeTimes == {T2500, T2400, T0760, TMinus}
\* Times that are not two numbers around one colon, and the missing time.
MalformedTimes == {TNoColon, TLetters, TEmpty, TSeconds, NoneStr}
TimeInputs == {T0700, T0701, T700} \cup OutOfRangeTimes \cup MalformedTimes

SetCall(time_str) ==
    [Call("alarm_set") EXCEPT !.time = time_str]
DeleteCall(alarm_id, numeric) ==
    [Call("alarm_delete") EXCEPT !.alarm_id = alarm_id, !.id_numeric = numeric]

\* The function calls of the alarm-store specification.
AlarmCalls ==
    {SetCall(t) : t \in TimeInputs}
        \cup {Call("alarm_list")}
        \cup {DeleteCall(i, TRUE) : i \in 1..(MaxAlarmTurns + 1)}
        \cup {DeleteCall(0, FALSE)}

\* The main thread alone, every turn a call of an alarm tool.
InitAlarmStore ==
    /\ InitCommon
    /\ EmptyStore
    /\ use_button = FALSE
    /\ firebase_messenger = FALSE

NextAlarmStore ==
    \/ StartTurn(MaxAlarmTurns)
    \/ MainLoopNext
    \/ RecordAuto
    \/ Transcribe(ChatTexts)
    \/ GetAiResponseEnter
    \/ InferFunctionCall(AlarmCalls)
    \/ ExecAlarmSet
    \/ ExecAlarmList
    \/ ExecAlarmDelete
    \/ Summary
    \/ TextToSpeech
    \/ PlayAudioDone

SpecAlarmStore == InitAlarmStore /\ [][NextAlarmStore]_vars

\* C9: whenever alarm_list has just answered, its text holds every alarm
\* that was accepted and not deleted, the k-th accepted alarm under id k with
\* the time it was set for (so the first one under id 1), and it is the
\* 'no alarms' text when no such alarm is left.
AlarmListShowsLiveAlarms ==
    (pc = "summary" /\ tool_call.tool = "alarm_list")
        => /\ live = {} => tool_result.kind = "no_alarms"
           /\ \A e \in live :
                 \E i \in 1..Len(tool_result.lines) :
                     /\ tool_result.lines[i].id = e[1]
                     /\ tool_result.lines[i].time = e[2]

\* C9's case: two alarms were accepted, one of them deleted, and alarm_list
\* answers with a listing.
AlarmListAfterSetAndDelete ==
    /\ pc = "summary"
    /\ tool_call.tool = "alarm_list"
    /\ accepted = 2
    /\ Cardinality(live) = 1
    /\ tool_result.kind = "alarm_listing"

\* C10: a dispatch of alarm_set with an out-of-range, malformed or missing
\* time answers with an error text and leaves alarms, alarm_next_id and the
\* persisted file as they were.
AlarmSetRejectsInvalidTime ==
    [][(/\ pc = "dispatch"
        /\ pc' # "dispatch"
        /\ tool_call.tool = "alarm_set"
        /\ tool_call.time \in OutOfRangeTimes \cup MalformedTimes)
          => /\ tool_result'.kind \in {"alarm_time_invalid", "alarm_format_invalid"}
             /\ alarms' = alarms
             /\ alarm_next_id' = alarm_next_id
             /\ alarm_file' = alarm_file]_vars

\* C10's case: "25:00" was refused while an alarm is stored and persisted.
InvalidTimeRefusedWithAlarmStored ==
    /\ pc = "summary"
    /\ tool_call = SetCall(T2500)
    /\ tool_result.kind = "alarm_time_invalid"
    /\ alarms # <<>>
    /\ alarm_file.exists

\* ------------------------------------------ the alarm-lifetimes specification

\* A slip: the loaded store keeps its alarms and starts the ids over.
LoadAlarmsResetId(file, readable) ==
    IF file.exists /\ readable
    THEN [alarms |-> file.alarms, next_id |-> 1]
    ELSE [alarms |-> <<>>, next_id |-> 1]

\* load_alarms in a fresh process: the module's defaults when there is no
\* file, the file's alarms and next_id when it parses, and the except
\* branch's empty store when reading it fails.
LoadAlarms(file, readable) ==
    IF file.exists /\ readable
    THEN [alarms |-> file.alarms, next_id |-> file.next_id]
    ELSE [alarms |-> <<>>, next_id |-> 1]

\* The process ends between two turns and is started again: the module's
\* globals are fresh and main() runs load_alarms on the file the earlier
\* process left.
Restart ==
    /\ pc = "idle"
    /\ restarts < MaxRestarts
    /\ restarts' = restarts + 1
    /\ \E readable \in BOOLEAN :
          LET loaded == LoadAlarms(alarm_file, readable)
          IN /\ alarms' = loaded.alarms
             /\ alarm_next_id' = loaded.next_id
             /\ ids_seen' = {loaded.alarms[i].id : i \in 1..Len(loaded.alarms)}
             /\ live' = {<<loaded.alarms[i].id, loaded.alarms[i].time>> :
                            i \in 1..Len(loaded.alarms)}
    /\ accepted' = 0
    /\ conversation_history' = <<>>
    /\ hist_before' = 0
    /\ translation_mode' = FALSE
    /\ languages' = DefaultLanguages
    /\ last_email_list' = <<>>
    /\ UNCHANGED <<running, use_button, firebase_messenger, pc, turn, frames,
                   in_vrs, text, attempt, tool_call, tool_result, response,
                   alarm_file, record_lock, is_recording, background_vars,
                   exec_count, out_lang, turn_calls>>

\* The function calls of the alarm-lifetimes specification.
LifetimeCalls ==
    {SetCall(T0700), SetCall(T0701)}
        \cup {DeleteCall(i, TRUE) : i \in 1..MaxAlarmTurns}

\* The main thread alone, every turn an alarm_set or alarm_delete, with
\* restarts of the process in between.
NextAlarmLifetimes ==
    \/ StartTurn(MaxAlarmTurns)
    \/ MainLoopNext
    \/ RecordAuto
    \/ Transcribe(ChatTexts)
    \/ GetAiResponseEnter
    \/ InferFunctionCall(LifetimeCalls)
    \/ ExecAlarmSet
    \/ ExecAlarmDelete
    \/ Summary
    \/ TextToSpeech
    \/ PlayAudioDone
    \/ Restart

SpecAlarmLifetimes == InitAlarmStore /\ [][NextAlarmLifetimes]_vars

\* C11: within one process lifetime a successful alarm_set gives the new
\* alarm an id above every id an alarm has had since the process started
\* (loaded, set or deleted), and no two alarms of the list share an id.
AlarmIdsNeverReused ==
    [][/\ \A i, j \in 1..Len(alarms') :
             alarms'[i].id = alarms'[j].id => i = j
       /\ (restarts' = restarts /\ Len(alarms') > Len(alarms))
             => \A k \in ids_seen : alarms'[Len(alarms')].id > k]_vars

\* C11's case: after a restart that loaded two alarms, one of them was
\* deleted and alarm_set has just stored a new one.
AlarmSetAfterRestartAndDelete ==
    /\ restarts = 1
    /\ pc = "summary"
    /\ tool_result.kind = "alarm_set_ok"
    /\ Len(alarms) = 2
    /\ Cardinality(ids_seen) = 3

\* C12: when alarm_set or alarm_delete has just reported success, the
\* persisted store holds the alarm list and next id of memory.
SuccessfulMutationIsPersisted ==
    (pc = "summary" /\ tool_result.kind \in {"alarm_set_ok", "alarm_deleted"})
        => alarm_file = [exists |-> TRUE, alarms |-> alarms,
                         next_id |-> alarm_next_id]

\* ------------------------------------------------- the mail specification

M1 == <<"m", "1">>
M2 == <<"m", "2">>
M3 == <<"m", "3">>
M4 == <<"m", "4">>
M5 == <<"m", "5">>

\* What messages.list may return: nothing, one message, three, two others.
MailListings == {<<>>, <<M1>>, <<M1, M2, M3>>, <<M4, M5>>}

\* The message_id parameters: ordinals as ints and as digit strings, inside
\* and outside every list, a message id given directly, and none.
MailRefs ==
    {IntRef(n) : n \in (0 - 1)..4}
        \cup {StrRef(<<"0">>), StrRef(<<"2">>), StrRef(<<"4">>), StrRef(M2), NoRef}

ReadCall(ref) == [Call("gmail_read") EXCEPT !.message_id = ref]
ReplyCall(ref) == [Call("gmail_reply") EXCEPT !.message_id = ref]

\* The function calls of the mail specification.
MailCalls ==
    {Call("gmail_list")}
        \cup {ReadCall(r) : r \in MailRefs}
        \cup {ReplyCall(r) : r \in MailRefs}

\* The main thread alone, every turn a call of gmail_list, gmail_read or
\* gmail_reply.
NextMail ==
    \/ StartTurn(MaxMailTurns)
    \/ MainLoopNext
    \/ RecordAuto
    \/ Transcribe(ChatTexts)
    \/ GetAiResponseEnter
    \/ InferFunctionCall(MailCalls)
    \/ ExecGmailList(MailListings)
    \/ ExecGmailRead
    \/ ExecGmailReply
    \/ Summary
    \/ TextToSpeech
    \/ PlayAudioDone

SpecMail == InitAlarmStore /\ [][NextMail]_vars

\* C15: a dispatch of gmail_read or gmail_reply with the ordinal n, while
\* last_email_list has N entries, calls the mail operation with the id of
\* entry n (and, for a reply, with its sender address) when 1 <= n <= N,
\* and otherwise answers 'not found' without a call and without raising.
OrdinalResolvesAgainstLastList ==
    [][(/\ pc = "dispatch"
        /\ pc' # "dispatch"
        /\ tool_call.tool \in {"gmail_read", "gmail_reply"}
        /\ IsOrdinal(tool_call.message_id))
          => LET n == OrdinalValue(tool_call.message_id)
                 reply == tool_call.tool = "gmail_reply"
             IN IF 1 <= n /\ n <= Len(last_email_list)
                THEN turn_calls'.mail =
                        Append(turn_calls.mail,
                               MailCall(IF reply THEN "reply" ELSE "read",
                                        last_email_list[n].id,
                                        IF reply THEN last_email_list[n].from_email
                                        ELSE NoneStr,
                                        <<>>))
                ELSE /\ tool_result'.kind \in {"mail_not_found",
                                               "mail_not_found_list_first"}
                     /\ pc' = "summary"
                     /\ turn_calls'.mail = turn_calls.mail]_vars

\* C15's case: with three entries listed, a reply to ordinal 2 has just
\* been handed to gmail_reply.
ReplyToSecondOfThree ==
    /\ pc = "summary"
    /\ tool_call = ReplyCall(IntRef(2))
    /\ Len(last_email_list) = 3
    /\ turn_calls.mail = <<MailCall("reply", M2, EmailInfo(M2).from_email, <<>>)>>

\* C16: when gmail_list has got a listing from messages.list and is done,
\* last_email_list holds entries of that listing only, ordinal i the i-th
\* listed message, and all of them when the call answered with the listing
\* or the 'no mail' text.
LastEmailListIsLastListing ==
    [][(/\ pc = "dispatch"
        /\ pc' # "dispatch"
        /\ tool_call.tool = "gmail_list"
        /\ turn_calls'.mail[Len(turn_calls'.mail)].op = "list")
          => LET listing == turn_calls'.mail[Len(turn_calls'.mail)].listing
             IN /\ Len(last_email_list') <= Len(listing)
                /\ \A i \in 1..Len(last_email_list') :
                      last_email_list'[i].id = listing[i]
                /\ (pc' = "summary"
                      /\ tool_result'.kind \in {"mail_listing", "no_mail"})
                      => Len(last_email_list') = Len(listing)]_vars

\* ------------------------------------------ the translation specifications

\* Transcripts as code points: Latin letters, kana, a Hangul syllable, the
\* characters just outside and at the ends of the three ranges, and Latin
\* texts with one kana in ten and in nine characters.
TLatin == <<104, 105>>
TKana == <<12371, 12435>>
THangul == <<54620>>
TBelowKana == <<12351>>
TLastIdeograph == <<40959>>
TAboveIdeographs == <<40960>>
TOneKanaInTen == <<111, 107, 32, 111, 107, 32, 111, 107, 32, 12397>>
TOneKanaInNine == <<111, 107, 32, 111, 107, 32, 111, 107, 12397>>
\* The phrase the module docstring gives for leaving translation mode.
TEndInterpreter == <<36890, 35379, 12514, 12540, 12489, 32066, 20102>>

TranslateTexts == {TLatin, TKana, THangul, TBelowKana, TLastIdeograph,
                   TAboveIdeographs, TOneKanaInTen, TOneKanaInNine,
                   TEndInterpreter}

\* translation_mode_on with its source_lang and target_lang parameters.
TranslationOnCall(source, target) ==
    [Call("translation_mode_on") EXCEPT
        !.langs = [source |-> source, target |-> target]]

\* The main thread alone: a turn switches translation on, for Japanese and
\* English, for English and Chinese or for Korean and English, or off, and the turns after a switch
\* to on translate.
NextTranslate ==
    \/ StartTurn(MaxTranslateTurns)
    \/ MainLoopNext
    \/ RecordAuto
    \/ Transcribe(TranslateTexts)
    \/ GetAiResponseEnter
    \/ InferFunctionCall({TranslationOnCall("ja", "en"),
                          TranslationOnCall("en", "zh"),
                          TranslationOnCall("ko", "en"),
                          Call("translation_mode_off")})
    \/ ExecTranslationMode
    \/ SummaryOk
    \/ TextToSpeech
    \/ PlayAudioDone

SpecTranslate == InitAlarmStore /\ [][NextTranslate]_vars

\* More than 10% of the text's characters are kana or ideographs.
MoreThanTenthJapanese(t) ==
    10 * Cardinality({i \in 1..Len(t) : IsJapaneseChar(t[i])}) > Len(t)

\* get_ai_response has returned a translation tuple that is being
\* synthesised or played, with source "ja" and target "en".
TranslationTupleReturned ==
    /\ pc \in {"tts", "play"}
    /\ response \in {"translation", "translation_error"}
    /\ languages = DefaultLanguages

\* C13 as stated: the tuple's language, which text_to_speech is given, is
\* "en" for an input with more than 10% Japanese characters and "ja" for
\* any other input.
TranslationTagOpposesInput ==
    TranslationTupleReturned
        => out_lang = IF MoreThanTenthJapanese(text) THEN "en" ELSE "ja"

\* C13 amended: that holds of a translation the backend returned; when the
\* translation call failed, the tuple is the error text tagged "ja".
TranslationTagOpposesInputOnSuccess ==
    TranslationTupleReturned
        => IF response = "translation"
           THEN out_lang = IF MoreThanTenthJapanese(text) THEN "en" ELSE "ja"
           ELSE out_lang = "ja"

\* C13's case: a Latin text with one kana in nine characters was translated
\* and is synthesised in English.
MixedTextTranslatedToEnglish ==
    /\ pc = "tts"
    /\ response = "translation"
    /\ languages = DefaultLanguages
    /\ text = TOneKanaInNine
    /\ out_lang = "en"

\* C21: a turn in translation mode in which the user says the phrase for
\* leaving it ends with translation mode inactive.
EndPhraseLeavesTranslationMode ==
    (pc = "returned" /\ text = TEndInterpreter /\ turn_calls.translate > 0)
        => ~translation_mode

\* The language a text of the translation specification is written in.
TextLanguage(t) ==
    CASE t = TLatin -> "en"
      [] t \in {TKana, TEndInterpreter} -> "ja"
      [] t = THangul -> "ko"
      [] OTHER -> "other"

\* C26: a translation the backend returned is tagged with the target
\* language when the input is in the source language and with the source
\* language when the input is in the target language, for any pair
\* translation_mode_on has set.
TranslationTagIsOtherLanguage ==
    (pc \in {"tts", "play"} /\ response = "translation")
        => /\ TextLanguage(text) = languages.source
                 => out_lang = languages.target
           /\ TextLanguage(text) = languages.target
                 => out_lang = languages.source

\* The main thread alone, in button or no-button mode: plain-text turns,
\* an alarm_set, a gmail_list and the translation switches, then
\* translation turns; any capture may come back short.
InitFrame ==
    /\ InitCommon
    /\ EmptyStore
    /\ use_button \in BOOLEAN
    /\ firebase_messenger = FALSE

NextFrame ==
    \/ StartTurn(MaxTranslateTurns)
    \/ MainLoopNext
    \/ Capture
    \/ Transcribe(ChatTexts)
    \/ Reasoning
    \/ InferFunctionCall({Call("translation_mode_on"),
                          Call("translation_mode_off"),
                          SetCall(T0700), Call("gmail_list")})
    \/ ExecTranslationMode
    \/ ExecAlarmSet
    \/ ExecGmailList({<<M1>>})
    \/ Summary

SpecFrame == InitFrame /\ [][NextFrame]_vars

\* C20: in a turn that runs with translation mode active (the mode is on
\* and the turn has not executed the tool that switched it on), no step
\* changes conversation_history, the alarm store or last_email_list, calls
\* execute_tool, or makes the reasoning call with the tool catalog.
TranslationTurnIsStateless ==
    [][(translation_mode /\ exec_count = 0)
          => /\ conversation_history' = conversation_history
             /\ alarms' = alarms
             /\ alarm_next_id' = alarm_next_id
             /\ alarm_file' = alarm_file
             /\ last_email_list' = last_email_list
             /\ exec_count' = 0
             /\ pc' \notin {"infer", "dispatch", "summary"}]_vars

\* C14: once process_voice's capture has come back short (fewer than 5
\* chunks in button mode, no sound detected in no-button mode) the turn is
\* over: it made no transcription, translation or reasoning call, executed
\* no tool, and conversation_history, the alarm store and last_email_list
\* are as they were.
ShortCaptureEndsTurn ==
    [][turn_calls'.capture = "short"
          => /\ pc' = "returned"
             /\ turn_calls'.stt = 0
             /\ turn_calls'.translate = 0
             /\ turn_calls'.reason = 0
             /\ exec_count' = 0
             /\ response' = "none"
             /\ conversation_history' = conversation_history
             /\ alarms' = alarms
             /\ alarm_next_id' = alarm_next_id
             /\ alarm_file' = alarm_file
             /\ last_email_list' = last_email_list]_vars

\* C14's case: in button mode, with history, an alarm and a mail listing in
\* memory, a capture of fewer than 5 chunks has ended the turn.
ShortButtonCaptureWithStateInMemory ==
    /\ use_button
    /\ pc = "returned"
    /\ turn_calls.capture = "short"
    /\ conversation_history # <<>>
    /\ alarms # <<>>
    /\ last_email_list # <<>>

\* C20's case: with history, an alarm and a mail listing in memory, a
\* translation turn has got its translation and is playing it.
TranslationPlayedWithStateInMemory ==
    /\ translation_mode
    /\ exec_count = 0
    /\ pc = "play"
    /\ response = "translation"
    /\ conversation_history # <<>>
    /\ alarms # <<>>
    /\ last_email_list # <<>>

\* ------------------------------------------------ the device specification

\* The store load_alarms reads at startup after an earlier run set three
\* alarms: two for 07:00 and one for 07:01.
DeviceAlarms == <<Alarm(1, T0700), Alarm(2, T0700), Alarm(3, T0701)>>

LoadedStore ==
    /\ alarms = DeviceAlarms
    /\ alarm_next_id = Len(DeviceAlarms) + 1
    /\ alarm_file = [exists |-> TRUE, alarms |-> DeviceAlarms,
                     next_id |-> Len(DeviceAlarms) + 1]
    /\ accepted = Len(DeviceAlarms)
    /\ live = {<<i, DeviceAlarms[i].time>> : i \in 1..Len(DeviceAlarms)}
    /\ ids_seen = {DeviceAlarms[i].id : i \in 1..Len(DeviceAlarms)}

\* The alarm monitor thread.
AlarmMonitor ==
    \/ AlarmPollBegin
    \/ AlarmExit
    \/ AlarmScanStep
    \/ AlarmLockAcquire
    \/ AlarmCheckRecording
    \/ AlarmTts
    \/ AlarmPlayDone
    \/ AlarmScanEnd

\* The listener's callback.
Listener ==
    \/ ListenerReceive
    \/ ListenerToneDone
    \/ ListenerPollsAgain
    \/ ListenerDownload
    \/ ListenerNotePlayDone
    \/ ListenerMark
    \/ ListenerReturn

\* The capture steps of record_audio_while_pressed.
ButtonCapture ==
    \/ CaptureOpenError
    \/ RecLockBegin
    \/ RecSetFlag
    \/ CaptureChunk
    \/ CaptureBreak
    \/ RecLockEnd
    \/ RecClearFlag

\* The steps of the alarm monitor while running is True.
AlarmPolling ==
    \/ AlarmPollBegin
    \/ AlarmScanStep
    \/ AlarmLockAcquire
    \/ AlarmCheckRecording
    \/ AlarmTts
    \/ AlarmPlayDone
    \/ AlarmScanEnd

\* The main thread in button mode and the alarm monitor, with the clock:
\* plain-text turns in the foreground while the monitor polls.
InitDevice ==
    /\ InitCommon
    /\ LoadedStore
    /\ use_button = TRUE
    /\ firebase_messenger = FALSE

NextDevice ==
    \/ StartTurn(MaxDeviceTurns)
    \/ MainLoopNext
    \/ ButtonCapture
    \/ Transcribe(ChatTexts)
    \/ GetAiResponseEnter
    \/ InferPlainText
    \/ TextToSpeech
    \/ PlayAudioDone
    \/ Tick
    \/ AlarmPolling

SpecDevice == InitDevice /\ [][NextDevice]_vars

\* The three threads, the clock and the shutdown signal, in both capture
\* modes.
InitAudio ==
    /\ InitCommon
    /\ LoadedStore
    /\ use_button \in BOOLEAN
    /\ firebase_messenger = TRUE

NextAudio ==
    \/ StartTurn(MaxDeviceTurns)
    \/ MainLoopNext
    \/ MainExit
    \/ Shutdown
    \/ Capture
    \/ Transcribe(ChatTexts)
    \/ GetAiResponseEnter
    \/ InferPlainText
    \/ TextToSpeech
    \/ PlayAudioDone
    \/ Tick
    \/ AlarmMonitor
    \/ Listener

SpecAudio == InitAudio /\ [][NextAudio]_vars

\* The components inside play_audio.
ForegroundPlaying == pc \in {"play", "vrs_announce_play", "vrs_report_play"}
AlarmPlaying == al_pc = "play"
ListenerPlaying == ls_pc \in {"tone", "note_play"}

\* The foreground is between the start of capture (the capture loop of
\* either mode) and the end of playback.
TurnInProgress ==
    pc \in {"capturing", "rec_end", "rec_locked_end", "rec_auto", "transcribe",
            "reason", "infer", "dispatch", "summary", "tts", "play"}

\* C4: the alarm monitor is never synthesizing or playing an alarm while a
\* foreground turn is in progress.
AlarmSilentDuringTurn == ~(al_pc \in {"tts", "play"} /\ TurnInProgress)

\* C5: writes to the output device are serialised by record_lock, so no two
\* of the foreground, the alarm monitor and the listener are inside
\* play_audio at the same time.
NoTwoInPlayAudio ==
    /\ ~(ForegroundPlaying /\ AlarmPlaying)
    /\ ~(ForegroundPlaying /\ ListenerPlaying)
    /\ ~(AlarmPlaying /\ ListenerPlaying)

\* C6: no thread waits for record_lock; in particular the foreground is
\* never at the acquisition that starts a capture while the alarm monitor
\* holds the lock for its synthesis or playback.
ForegroundNeverWaitsForAlarm ==
    ~(pc = "rec_begin" /\ record_lock = "alarm" /\ al_pc \in {"tts", "play"})

\* C7: no alarm is announced twice for one minute: not by two poll cycles
\* that read the same minute, and not twice within one minute of the clock.
AlarmAnnouncedOncePerMinute ==
    \A i, j \in 1..Len(announced) :
        (i # j /\ announced[i].id = announced[j].id)
            => /\ announced[i].minute # announced[j].minute
               /\ announced[i].at # announced[j].at

\* C7's case: two alarms sharing a minute were both announced, and a later
\* poll cycle of that same minute has run to its end.
TwoAlarmsAnnouncedThenPolledAgain ==
    /\ Len(announced) = 2
    /\ announced[1].id # announced[2].id
    /\ announced[1].minute = announced[2].minute
    /\ al_pc = "sleep"
    /\ al_now = announced[1].minute
    /\ polls >= 2
    /\ last_triggered # {}

\* C8: an alarm whose firing was dropped because is_recording was set is
\* not announced for that minute by any poll cycle.
BusyAlarmStaysSilent ==
    \A s \in skipped :
        \A i \in 1..Len(announced) :
            ~(announced[i].id = s.id /\ announced[i].minute = s.minute)

\* C8's case: a firing was dropped, the turn is over, and a later poll
\* cycle of the same minute has run to its end.
DroppedFiringThenPolledAgain ==
    \E s \in skipped :
        /\ polls > s.poll
        /\ al_now = s.minute
        /\ al_pc = "sleep"
        /\ pc = "idle"
        /\ ~is_recording

\* C22: no failure while a voice note is handled leaves
\* on_voice_message_received: the callback is never left by an exception.
NoFailureLeavesListenerCallback == ls_pc # "raised"

\* C30: a note is marked consumed only after its audio was played, the
\* steps for it being tone, download, transcode, playback, mark in that
\* order.
MarkedOnlyAfterPlayback ==
    ls_pc = "marked"
        => ls_steps = <<"tone", "download", "transcode", "play", "mark">>


\* ------------------------------------------- what a poll cycle leaves done

\* The enabled alarms of the list whose time is the minute the cycle read.
DueInCycle ==
    {alarms[i].id : i \in {j \in 1..Len(alarms) :
        alarms[j].enabled /\ alarms[j].time = CurrentTime(al_now)}}

\* The alarm was announced for the minute the cycle read.
AnnouncedFor(id) ==
    \E i \in 1..Len(announced) :
        announced[i].id = id /\ announced[i].minute = al_now

\* The firing was dropped for that minute because is_recording was set.
SkippedFor(id) == \E s \in skipped : s.id = id /\ s.minute = al_now

RenderedMinute(time_str) ==
    LET fields == SplitColon(time_str)
    IN Strftime(ParseInt(fields[1]).value * 60 + ParseInt(fields[2]).value)

\* C36: every alarm alarm_set has accepted is stored with the time string
\* the monitor's "%H:%M" clock shows in the alarm's minute, so that the
\* monitor's string comparison succeeds when that minute is reached.
AcceptedAlarmMatchesClock ==
    \A i \in 1..Len(alarms) :
        alarms[i].time = RenderedMinute(alarms[i].time)

\* ------------------------------------------------------ roles in the history

\* C34: no two consecutive entries of conversation_history have the same
\* role.
HistoryRolesAlternate ==
    \A i \in 1..(Len(conversation_history) - 1) :
        conversation_history[i].role # conversation_history[i + 1].role

\* ------------------------------------------------- the is_recording flag

\* The main thread is in record_audio_while_pressed between the statement
\* that sets is_recording and the statement that clears it.
InsideCapture == pc \in {"capturing", "rec_end", "rec_locked_end"}

\* C35: is_recording is set only while the foreground is between the start
\* and the end of the capture of record_audio_while_pressed, hence never in
\* Idle or in a later phase of a turn, and every write of it happens while
\* the main thread holds record_lock.
RecordingFlagOnlyInsideCapture ==
    /\ [](is_recording => InsideCapture)
    /\ [][is_recording' # is_recording => record_lock = "fg"]_vars

\* C35's case: shutdown has ended a capture, the flag has been cleared, and
\* the turn went on to transcription while the alarm monitor holds the lock.
FlagClearedAfterShutdownCapture ==
    /\ ~running
    /\ pc = "transcribe"
    /\ ~is_recording
    /\ record_lock = "alarm"

\* ------------------------------------------------------ tools and shutdown

\* C33: once running is False no step is a call of execute_tool: every
\* dispatch is made while the shutdown flag is unset.
NoToolDispatchAfterShutdown ==
    [][exec_count' = exec_count + 1 => running]_vars

\* ------------------------------------------------------- after the shutdown

\* C32: once running is False no step reads a further chunk of a capture,
\* writes a further chunk of a playback or starts a turn, the push-voice
\* wait for the button ends by returning, and main()'s loop eventually ends
\* (its finally block then releases the audio handle).
ShutdownStopsLoopsAndMainEnds ==
    /\ [][~running =>
            /\ frames' <= frames
            /\ turn_calls'.written <= turn_calls.written
            /\ turn' = turn
            /\ (pc = "vrs_wait" /\ use_button /\ pc' # pc) => pc' = "returned"]_vars
    /\ (~running ~> pc = "exit")

\* C32's case: the shutdown flag is set, the turn's playback has written one
\* chunk and no more, and the turn has returned to main()'s loop.
PlaybackCutByShutdown ==
    /\ ~running
    /\ pc = "returned"
    /\ turn_calls.written = 1
    /\ turn_calls.capture = "audio"

\* -------------------------------------------- the scan and the alarm tools

\* Turns the foreground may start in the scan specification.
MaxScanTurns == 2

\* The function calls of the scan specification.
ScanCalls == {SetCall(T0701), DeleteCall(1, TRUE), DeleteCall(2, TRUE)}

\* The main thread without a button and the alarm monitor: every turn a
\* call of alarm_set or alarm_delete while the monitor polls.
InitScan ==
    /\ InitCommon
    /\ LoadedStore
    /\ use_button = FALSE
    /\ firebase_messenger = FALSE

NextScan ==
    \/ StartTurn(MaxScanTurns)
    \/ MainLoopNext
    \/ RecordAuto
    \/ Transcribe(ChatTexts)
    \/ GetAiResponseEnter
    \/ InferFunctionCall(ScanCalls)
    \/ ExecAlarmSet
    \/ ExecAlarmDelete
    \/ Summary
    \/ TextToSpeech
    \/ PlayAudioDone
    \/ AlarmPolling

SpecScan == InitScan /\ [][NextScan]_vars

\* C37: when a scan has ended, every alarm that was in the list when the
\* scan began and is still in it has been examined by that scan.
ScanExaminesEveryListedAlarm ==
    (al_pc = "sleep" /\ polls > 0)
        => \A i \in 1..Len(alarms) :
              alarms[i].id \in scan.ids => alarms[i].id \in scan.seen

=========================================================================
